---- MODULE Spec2Model ----
(***************************************************************************)
(* A model of the sitcom-character-styles prompt pipeline: the prompt      *)
(* decomposer (PromptParser), the Endora intensity-banded rewriter         *)
(* (EndoraOperator), the recomposer (ContinuousDeformationOperator.apply), *)
(* the strict entry point (enhance_prompt_with_endora) and the embedded    *)
(* operator of the tool server.                                            *)
(*                                                                         *)
(* Python strings are TLA+ strings, handled character by character with    *)
(* Len, SubSeq and \o.  Python's 0-based positions are kept 1-based here,  *)
(* with 0 standing for "not found" (str.find's -1).  Python lists are      *)
(* sequences.  A float is kept as an exact fraction [num, den]:            *)
(* intensity / 10.0 is intensity over 10 and the literal 0.3 is 3 over 10. *)
(* For an integer i in 0..10 the double i / 10.0 is the double nearest to  *)
(* the decimal 0.i, the very double the literal 0.i denotes, so every      *)
(* comparison the code makes has the outcome of the exact comparison.      *)
(***************************************************************************)
EXTENDS Integers, Sequences, FiniteSets, TLC

VARIABLES
    operators,    \* operator instances: id -> the object's fields, None before construction
    requested,    \* id -> the intensity argument the instance's constructor was given
    results,      \* id -> the prompt and the TransformedPrompt of the instance's last apply
    raised,       \* the exception the last call raised (with the argument it
                  \* rejected), None if the call returned
    call,         \* the arguments of the last enhance_prompt_with_endora call, and
                  \* the value of constructed when it was made
    response,     \* the dictionary that call returned, None if it raised
    constructed,  \* number of operators the entry point has constructed so far
    parsed,       \* the ParsedPrompt of the last PromptParser.parse call
    slot,         \* the dimension and the slot value under rewrite
    outs,         \* intensity -> the rewrite of the slot value at that intensity
    loader,       \* the OlogLoader the last construction left, None if it raised
    issues        \* the list the loader's last validate_coherence returned

vars ==
    <<operators, requested, results, raised, call, response, constructed, parsed,
      slot, outs, loader, issues>>

\* Python's None
None == [type |-> "NoneType"]

\* a Python value passed as the intensity argument
IntArg(n) == [type |-> "int", value |-> n]
StrArg(t) == [type |-> "str", value |-> t]

----------------------------------------------------------------------------
(* Python str / list primitives *)

LowerAlphabet == "abcdefghijklmnopqrstuvwxyz"
UpperAlphabet == "ABCDEFGHIJKLMNOPQRSTUVWXYZ"

\* the cased letters of U+00C0 .. U+00FE: str.lower maps the first to the second
Latin1Upper == "ÀÁÂÃÄÅÆÇÈÉÊËÌÍÎÏÐÑÒÓÔÕÖØÙÚÛÜÝÞ"
Latin1Lower == "àáâãäåæçèéêëìíîïðñòóôõöøùúûüýþ"

\* the characters in code order: U+0001 .. U+001F, U+0020 .. U+005F,
\* U+0061 .. U+007E and U+007F .. U+00FF (a string of TLA+ cannot hold the
\* grave accent U+0060; the texts here hold no U+0000 and nothing above U+00FF)
ControlChars == "\t\n\f\r"
PrintableChars == " !\"#$%&'()*+,-./0123456789:;<=>?@ABCDEFGHIJKLMNOPQRSTUVWXYZ[\\]^_"
LowerChars == "abcdefghijklmnopqrstuvwxyz{|}~"
HighChars == " ¡¢£¤¥¦§¨©ª«¬­®¯°±²³´µ¶·¸¹º»¼½¾¿ÀÁÂÃÄÅÆÇÈÉÊËÌÍÎÏÐÑÒÓÔÕÖ×ØÙÚÛÜÝÞßàáâãäåæçèéêëìíîïðñòóôõö÷øùúûüýþÿ"

Max(a, b) == IF a >= b THEN a ELSE b
Min(a, b) == IF a <= b THEN a ELSE b

\* the character of s at 1-based position i
Ch(s, i) == SubSeq(s, i, i)

\* str.startswith(w, i - 1): w occurs in s at position i
At(s, i, w) == i + Len(w) - 1 <= Len(s) /\ SubSeq(s, i, i + Len(w) - 1) = w

\* str.find from position i: the first 1-based position of sub at or after i, 0 if none
RECURSIVE FindFrom(_, _, _)
FindFrom(s, sub, i) ==
    IF i + Len(sub) - 1 > Len(s) THEN 0
    ELSE IF At(s, i, sub) THEN i
    ELSE FindFrom(s, sub, i + 1)

Find(s, sub) == FindFrom(s, sub, 1)

\* the "sub in s" test
Contains(s, sub) == \E i \in 1 .. Len(s) - Len(sub) + 1 : At(s, i, sub)

StartsWith(s, pre) == At(s, 1, pre)

EndsWith(s, suf) ==
    Len(suf) <= Len(s) /\ SubSeq(s, Len(s) - Len(suf) + 1, Len(s)) = suf

\* ord(c), 0 for a character outside the tables
Ord(c) ==
    LET i == Find(ControlChars, c)
        j == Find(PrintableChars, c)
        l == Find(LowerChars, c)
        k == Find(HighChars, c)
    IN  IF i > 0 THEN i
        ELSE IF j > 0 THEN 31 + j
        ELSE IF l > 0 THEN 96 + l
        ELSE IF k > 0 THEN 126 + k
        ELSE 0

\* chr(n), for n in 1 .. 255 other than 96
Chr(n) ==
    IF n <= 31 THEN Ch(ControlChars, n)
    ELSE IF n <= 95 THEN Ch(PrintableChars, n - 31)
    ELSE IF n <= 126 THEN Ch(LowerChars, n - 96)
    ELSE Ch(HighChars, n - 126)

\* two lowercase hexadecimal digits
HexDigits == "0123456789abcdef"
Hex2(n) == Ch(HexDigits, (n \div 16) + 1) \o Ch(HexDigits, (n % 16) + 1)

\* U+0020 .. U+007E
AsciiPrintable == {Chr(n) : n \in (32 .. 126) \ {96}}

\* str.isprintable, up to U+00FF
Printable == AsciiPrintable \cup {Chr(n) : n \in (161 .. 255) \ {173}}

\* the whitespace of str.strip, str.split and the regex class \s, up to U+00FF:
\* \t \n \x0b \x0c \r, \x1c .. \x1f, the space, \x85 and \xa0
Whitespace == {Chr(n) : n \in (9 .. 13) \cup (28 .. 32) \cup {133, 160}}

IsSpace(c) == c \in Whitespace

IsLowerLetter(c) == Len(c) = 1 /\ Contains(LowerAlphabet, c)

\* the characters str.lower changes, up to U+00FF
UpperLetters ==
    {Ch(UpperAlphabet, i) : i \in 1 .. Len(UpperAlphabet)}
        \cup {Ch(Latin1Upper, i) : i \in 1 .. Len(Latin1Upper)}

LowerChar(c) ==
    IF c \notin UpperLetters THEN c
    ELSE LET i == Find(UpperAlphabet, c)
         IN  IF i > 0 THEN Ch(LowerAlphabet, i)
             ELSE Ch(Latin1Lower, Find(Latin1Upper, c))

\* str.lower, by halves
RECURSIVE Lower(_)
Lower(s) ==
    IF s = "" THEN ""
    ELSE IF Len(s) = 1 THEN LowerChar(s)
    ELSE Lower(SubSeq(s, 1, Len(s) \div 2)) \o Lower(SubSeq(s, Len(s) \div 2 + 1, Len(s)))

RECURSIVE LStrip(_)
LStrip(s) == IF s # "" /\ IsSpace(Head(s)) THEN LStrip(Tail(s)) ELSE s

RECURSIVE RStrip(_)
RStrip(s) ==
    IF s # "" /\ IsSpace(Ch(s, Len(s))) THEN RStrip(SubSeq(s, 1, Len(s) - 1)) ELSE s

\* str.strip
Strip(s) == RStrip(LStrip(s))

\* str.replace(old, "", 1): the first occurrence of old removed
RemoveFirst(s, old) ==
    LET i == Find(s, old)
    IN  IF i = 0 THEN s
        ELSE SubSeq(s, 1, i - 1) \o SubSeq(s, i + Len(old), Len(s))

\* the end of the run of non-space characters that starts at i
RECURSIVE WordEnd(_, _)
WordEnd(s, i) ==
    IF i + 1 <= Len(s) /\ ~IsSpace(Ch(s, i + 1)) THEN WordEnd(s, i + 1) ELSE i

\* str.split(): the maximal runs of non-space characters
RECURSIVE SplitFrom(_, _)
SplitFrom(s, i) ==
    IF i > Len(s) THEN <<>>
    ELSE IF IsSpace(Ch(s, i)) THEN SplitFrom(s, i + 1)
    ELSE LET e == WordEnd(s, i)
         IN  <<SubSeq(s, i, e)>> \o SplitFrom(s, e + 1)

Split(s) == SplitFrom(s, 1)

\* sep.join(parts)
RECURSIVE Join(_, _)
Join(parts, sep) ==
    IF parts = <<>> THEN ""
    ELSE IF Len(parts) = 1 THEN parts[1]
    ELSE parts[1] \o sep \o Join(Tail(parts), sep)

\* the elements of a list that satisfy a membership test, in list order
RECURSIVE Keep(_, _)
Keep(list, good) ==
    IF list = <<>> THEN <<>>
    ELSE IF Head(list) \in good THEN <<Head(list)>> \o Keep(Tail(list), good)
    ELSE Keep(Tail(list), good)

\* the first element of list that occurs in text, dflt if none does
RECURSIVE FirstIn(_, _, _)
FirstIn(list, text, dflt) ==
    IF list = <<>> THEN dflt
    ELSE IF Contains(text, Head(list)) THEN Head(list)
    ELSE FirstIn(Tail(list), text, dflt)

Range(f) == {f[i] : i \in DOMAIN f}

----------------------------------------------------------------------------
(* PromptParser: the decomposition heuristics *)

Articles == <<"a", "an", "the">>
SubjectStops1 == {"in", "on", "at", "with", "wearing", "holding"}
SubjectStops2 == SubjectStops1 \cup {"is", "are"}
FallbackStops ==
    {"in", "on", "at", "with", "wearing", "holding", "near", "by", "under", "above"}
MaxSubjectWords == 4

Verbs ==
    << "walking", "running", "standing", "sitting", "eating", "drinking",
       "looking", "holding", "wearing", "riding", "driving", "cooking",
       "reading", "writing", "talking", "singing", "dancing", "playing",
       "tasting", "smelling", "touching", "building", "creating" >>
ActionBefore == 10
ActionAfter == 20

Settings ==
    << "kitchen", "bedroom", "living room", "office", "street", "park",
       "forest", "beach", "mountain", "city", "village", "house", "building",
       "room", "garden", "library", "cafe", "restaurant", "bar", "stage" >>

ObjectKeywords ==
    << "cup", "bottle", "glass", "table", "chair", "book",
       "flower", "plant", "lamp", "window", "door", "painting", "mirror",
       "knife", "fork", "plate", "bowl", "pot", "pan", "mug" >>
AdjectiveNouns == <<"coffee", "soup", "wine", "water", "tea", "beer", "milk">>

ColorWords ==
    << "red", "blue", "green", "yellow", "orange", "purple", "pink",
       "black", "white", "gray", "grey", "brown", "gold", "silver",
       "sapphire", "emerald", "amethyst", "ruby", "jade", "bronze" >>

Moods ==
    << "happy", "sad", "angry", "peaceful", "tense", "cheerful", "somber",
       "playful", "serious", "warm", "cold", "inviting", "mysterious",
       "anxious", "calm", "chaotic", "orderly", "bright", "dark" >>
DefaultMood == "neutral"

\* the regex class [a-z\s]
InSubjectClass(c) == IsLowerLetter(c) \/ IsSpace(c)

\* the end of the run of whitespace that starts at i (i - 1 if there is none)
RECURSIVE SpaceRunEnd(_, _)
SpaceRunEnd(t, i) ==
    IF i <= Len(t) /\ IsSpace(Ch(t, i)) THEN SpaceRunEnd(t, i + 1) ELSE i - 1

\* the regex tail (?:\s+(?:w1|w2|...)) matched at position q: one or more
\* whitespace characters and then one of the words (no word boundary after it)
StopTailAt(t, q, stops) ==
    \E e \in q .. SpaceRunEnd(t, q) :
        \E w \in stops : At(t, e + 1, w)

\* the lazy group ([a-z\s]+?) from g, tried at lengths 1, 2, ...: the end of
\* the first one the tail follows, 0 when the class stops matching first
RECURSIVE LazyGroupEnd(_, _, _)
LazyGroupEnd(t, e, stops) ==
    IF e > Len(t) \/ ~InSubjectClass(Ch(t, e)) THEN 0
    ELSE IF StopTailAt(t, e + 1, stops) THEN e
    ELSE LazyGroupEnd(t, e + 1, stops)

\* the greedy \s+ after the article, ending at e and backtracking down to s:
\* <<first, last>> of the group, <<>> when no length of the run leads to a match
RECURSIVE AfterArticle(_, _, _)
AfterArticle(t, s, e) ==
    IF e < s THEN <<>>
    ELSE LET last == LazyGroupEnd(t, e + 1, SubjectStops1)
         IN  IF last # 0 THEN <<e + 1, last>> ELSE AfterArticle(t, s, e - 1)

\* the alternation (?:a|an|the) at position p, alternatives in order from k
RECURSIVE ArticleAt(_, _, _)
ArticleAt(t, p, k) ==
    IF k > Len(Articles) THEN <<>>
    ELSE LET s == p + Len(Articles[k])
             m == IF At(t, p, Articles[k])
                  THEN AfterArticle(t, s, SpaceRunEnd(t, s))
                  ELSE <<>>
         IN  IF m # <<>> THEN m ELSE ArticleAt(t, p, k + 1)

\* re.search of the first pattern: the leftmost position with a match
RECURSIVE SearchPattern1(_, _)
SearchPattern1(t, p) ==
    IF p > Len(t) THEN <<>>
    ELSE LET m == ArticleAt(t, p, 1)
         IN  IF m # <<>> THEN m ELSE SearchPattern1(t, p + 1)

\* re.search of the second pattern, anchored at the start by ^
SearchPattern2(t) ==
    LET last == LazyGroupEnd(t, 1, SubjectStops2)
    IN  IF last # 0 THEN <<1, last>> ELSE <<>>

\* the fallback: the words before the first stop word
RECURSIVE WordsBeforeStop(_)
WordsBeforeStop(words) ==
    IF words = <<>> \/ Lower(Head(words)) \in FallbackStops THEN <<>>
    ELSE <<Head(words)>> \o WordsBeforeStop(Tail(words))

_extract_subject(prompt) ==
    LET t  == Lower(prompt)
        m1 == SearchPattern1(t, 1)
        m2 == SearchPattern2(t)
        ws == WordsBeforeStop(Split(prompt))
    IN  IF m1 # <<>> THEN Strip(SubSeq(t, m1[1], m1[2]))
        ELSE IF m2 # <<>> THEN Strip(SubSeq(t, m2[1], m2[2]))
        ELSE Join(SubSeq(ws, 1, Min(MaxSubjectWords, Len(ws))), " ")

\* the first verb of the vocabulary that occurs in the lower-cased prompt
RECURSIVE FirstVerb(_, _)
FirstVerb(t, k) ==
    IF k > Len(Verbs) THEN 0
    ELSE IF Contains(t, Verbs[k]) THEN k
    ELSE FirstVerb(t, k + 1)

_extract_action(prompt) ==
    LET t == Lower(prompt)
        k == FirstVerb(t, 1)
    IN  IF k = 0 THEN ""
        ELSE LET idx   == Find(t, Verbs[k]) - 1
                 start == Max(0, idx - ActionBefore)
                 end   == Min(Len(prompt), idx + Len(Verbs[k]) + ActionAfter)
             IN  Strip(SubSeq(prompt, start + 1, end))

_extract_setting(prompt) == FirstIn(Settings, Lower(prompt), "")

\* an object test without the compound-noun exclusion
ObjectCountsCompounds(t, obj) == Contains(t, obj)

\* an object keyword counts unless "<adjective noun> <keyword>" occurs anywhere
ObjectCounts(t, obj) ==
    /\ Contains(t, obj)
    /\ \A k \in 1 .. Len(AdjectiveNouns) :
           ~Contains(t, AdjectiveNouns[k] \o " " \o obj)

_extract_objects(prompt) ==
    LET t == Lower(prompt)
    IN  Keep(ObjectKeywords, {o \in Range(ObjectKeywords) : ObjectCounts(t, o)})

_extract_colors(prompt) ==
    LET t == Lower(prompt)
    IN  Keep(ColorWords, {c \in Range(ColorWords) : Contains(t, c)})

\* a mood extraction without the default
ExtractMoodOrNothing(prompt) == FirstIn(Moods, Lower(prompt), "")

_extract_mood(prompt) == FirstIn(Moods, Lower(prompt), DefaultMood)

\* the loop of parse: each non-empty slot string removed once, in order
RECURSIVE RemoveEach(_, _)
RemoveEach(text, words) ==
    IF words = <<>> THEN text
    ELSE IF Head(words) # "" THEN RemoveEach(RemoveFirst(text, Head(words)), Tail(words))
    ELSE RemoveEach(text, Tail(words))

parse(prompt) ==
    LET subject == _extract_subject(prompt)
        action  == _extract_action(prompt)
        setting == _extract_setting(prompt)
        objects == _extract_objects(prompt)
        colors  == _extract_colors(prompt)
        mood    == _extract_mood(prompt)
    IN  [ base_prompt   |-> prompt,
          subject       |-> subject,
          action        |-> action,
          setting       |-> setting,
          objects       |-> objects,
          colors        |-> colors,
          mood          |-> mood,
          other_details |->
              Strip(RemoveEach(prompt,
                  <<subject, action, setting>> \o objects \o colors \o <<mood>>)) ]

----------------------------------------------------------------------------
(* floats as exact fractions *)

Frac(n, d) == [num |-> n, den |-> d]

\* the literal 0.t
Tenth(t) == Frac(t, 10)

\* x < y, denominators positive
Lt(x, y) == x.num * y.den < y.num * x.den

\* x >= y
Ge(x, y) == ~Lt(x, y)

----------------------------------------------------------------------------
(* ContinuousDeformationOperator.__init__ and EndoraOperator.__init__ *)

MinIntensity == 0
MaxIntensity == 10

EndoraName == "Endora"

EndoraWorldview ==
    "I exist in a hierarchy where I occupy a superior position. "
    \o "I possess knowledge, aesthetic refinement, and supernatural power that mortals lack. "
    \o "Everything I encounter is implicitly evaluated against standards I have set. "
    \o "Reality bends to accommodate my will."

\* a validation that forgets the upper limit
ValidateWithoutUpperClamp(intensity) ==
    IF intensity < MinIntensity THEN MinIntensity ELSE intensity

\* an int argument is constrained to 0..10, never rejected
_validate_intensity(intensity) ==
    IF intensity < MinIntensity THEN MinIntensity
    ELSE IF intensity > MaxIntensity THEN MaxIntensity
    ELSE intensity

\* self.intensity / 10.0
FactorOf(intensity) == Frac(intensity, 10)

\* a constructor that derives the factor from its argument, not from self.intensity
EndoraOperatorFactorOfArgument(intensity) ==
    [ cls              |-> "framework",
      character_name   |-> EndoraName,
      core_worldview   |-> EndoraWorldview,
      intensity        |-> _validate_intensity(intensity),
      intensity_factor |-> FactorOf(intensity) ]

\* the fields of a framework EndoraOperator after its constructor has run
EndoraOperator(intensity) ==
    LET clamped == _validate_intensity(intensity)
    IN  [ cls              |-> "framework",
          character_name   |-> EndoraName,
          core_worldview   |-> EndoraWorldview,
          intensity        |-> clamped,
          intensity_factor |-> FactorOf(clamped) ]

----------------------------------------------------------------------------
(* EndoraOperator: the five dimension rewrites.  Each method is an if-chain *)
(* on self.intensity_factor; the ...Band operator is the number of the      *)
(* branch the chain takes, and the method's result is that branch's value.  *)

\* the chain "< 0.2, < 0.4, < 0.6, < 0.8, else" of the subject, setting,
\* action and mood rewrites
FiveBand(f) ==
    IF Lt(f, Tenth(2)) THEN 1
    ELSE IF Lt(f, Tenth(4)) THEN 2
    ELSE IF Lt(f, Tenth(6)) THEN 3
    ELSE IF Lt(f, Tenth(8)) THEN 4
    ELSE 5

\* the leading article, if any, removed from the stripped subject
RECURSIVE StripArticle(_, _)
StripArticle(clean, arts) ==
    IF arts = <<>> THEN clean
    ELSE IF StartsWith(Lower(clean), Head(arts))
         THEN SubSeq(clean, Len(Head(arts)) + 1, Len(clean))
    ELSE StripArticle(clean, Tail(arts))

MaterialBand(f) == FiveBand(f)

_transform_material_dimension(self, subject) ==
    IF subject = "" THEN subject
    ELSE LET clean_subject == StripArticle(Strip(subject), <<"a ", "an ", "the ">>)
             band          == MaterialBand(self.intensity_factor)
         IN  CASE band = 1 -> subject
               [] band = 2 -> subject \o " with subtle presence"
               [] band = 3 -> subject \o " rendered with material precision and intention"
               [] band = 4 -> subject \o " materially precious and intentionally crafted"
               [] OTHER    -> "exquisitely crafted " \o clean_subject
                                  \o ", materially significant"

\* the chain "< 0.3, < 0.6, < 0.8, else" of the object rewrite
ObjectBand(f) ==
    IF Lt(f, Tenth(3)) THEN 1
    ELSE IF Lt(f, Tenth(6)) THEN 2
    ELSE IF Lt(f, Tenth(8)) THEN 3
    ELSE 4

TransformObject(self, obj) ==
    LET band == ObjectBand(self.intensity_factor)
    IN  CASE band = 1 -> obj
          [] band = 2 -> obj \o " with clear material intention"
          [] band = 3 -> "precious " \o obj \o " rendered with material precision"
          [] OTHER    -> "exquisitely crafted " \o obj \o ", materially significant"

_transform_material_objects(self, objects) ==
    IF objects = <<>> THEN objects
    ELSE [k \in 1 .. Len(objects) |-> TransformObject(self, objects[k])]

SpatialBand(f) == FiveBand(f)

_transform_spatial_dimension(self, setting) ==
    IF setting = "" THEN setting
    ELSE LET band == SpatialBand(self.intensity_factor)
         IN  CASE band = 1 -> setting
               [] band = 2 -> setting \o " with subtle hierarchy"
               [] band = 3 -> setting \o ", organized by significance and hierarchy"
               [] band = 4 -> setting \o " dramatically reorganized into clear spatial tiers"
               [] OTHER    -> setting \o " completely reorganized - foreground precious and clear, background diminished"

TemporalBand(f) == FiveBand(f)

_transform_temporal_dimension(self, action) ==
    IF action = "" THEN action
    ELSE LET band == TemporalBand(self.intensity_factor)
         IN  CASE band = 1 -> action
               [] band = 2 -> action \o ", slightly paused in time"
               [] band = 3 -> action \o " with deliberate, weighted motion - each gesture significant"
               [] band = 4 -> action \o " with extreme temporal deliberation - moment stretched and weighted"
               [] OTHER    -> action \o " outside normal temporal flow, with supernatural inevitability"

jewel_tone_map ==
    [ red    |-> "deep jewel red",
      blue   |-> "sapphire blue",
      green  |-> "emerald green",
      purple |-> "amethyst purple",
      yellow |-> "golden honey",
      orange |-> "rose gold",
      black  |-> "midnight with silver shimmer",
      white  |-> "cream or ivory",
      brown  |-> "aged bronze or copper",
      gray   |-> "cool gray with depth" ]

\* jewel_tone_map.get(key, dflt)
JewelGet(key, dflt) ==
    IF key \in DOMAIN jewel_tone_map THEN jewel_tone_map[key] ELSE dflt

\* a palette chain that starts one tenth early
PaletteBandFromThree(f) ==
    IF Lt(f, Tenth(3)) THEN 1
    ELSE IF Lt(f, Tenth(7)) THEN 2
    ELSE 3

\* the chain "< 0.4, < 0.7, else" taken when no color was found
PaletteBand(f) ==
    IF Lt(f, Tenth(4)) THEN 1
    ELSE IF Lt(f, Tenth(7)) THEN 2
    ELSE 3

\* the chain "< 0.3, < 0.5, < 0.7, else" of the per-color rewrite
ChromaticBand(f) ==
    IF Lt(f, Tenth(3)) THEN 1
    ELSE IF Lt(f, Tenth(5)) THEN 2
    ELSE IF Lt(f, Tenth(7)) THEN 3
    ELSE 4

CompositionSuffix == " composed with intention"

\* the test "self.intensity_factor >= 0.6" of the compositional suffix
Composes(f) == Ge(f, Tenth(6))

\* a per-color rewrite whose third branch falls back to the color itself
TransformColorPlainDefault(self, color) ==
    LET color_lower == Lower(color)
        band        == ChromaticBand(self.intensity_factor)
    IN  CASE band = 1 -> color
          [] band = 2 -> "hint of " \o JewelGet(color_lower, color \o " elevated to richness")
          [] band = 3 -> JewelGet(color_lower, color)
          [] OTHER    -> "saturated "
                             \o JewelGet(color_lower, color \o " transformed to jewel intensity")

TransformColor(self, color) ==
    LET color_lower == Lower(color)
        band        == ChromaticBand(self.intensity_factor)
    IN  CASE band = 1 -> color
          [] band = 2 -> "hint of " \o JewelGet(color_lower, color \o " elevated to richness")
          [] band = 3 -> JewelGet(color_lower, color \o " rendered as precious tone")
          [] OTHER    -> "saturated "
                             \o JewelGet(color_lower, color \o " transformed to jewel intensity")

\* a suffix appended inside the loop, to every element
SuffixEach(transformed) ==
    [k \in 1 .. Len(transformed) |-> transformed[k] \o CompositionSuffix]

\* transformed[-1] = transformed[-1] + suffix
SuffixLast(transformed) ==
    [transformed EXCEPT ![Len(transformed)] = @ \o CompositionSuffix]

_transform_chromatic_dimension(self, colors) ==
    IF colors = <<>>
    THEN LET band == PaletteBand(self.intensity_factor)
         IN  CASE band = 1 -> <<>>
               [] band = 2 -> <<"rich jewel-tone accents">>
               [] OTHER    -> <<"deep sapphire, emerald, and amethyst tones with gold accents">>
    ELSE LET transformed == [k \in 1 .. Len(colors) |-> TransformColor(self, colors[k])]
         IN  IF Composes(self.intensity_factor) /\ Len(transformed) > 0
             THEN SuffixLast(transformed)
             ELSE transformed

EmotionalBand(f) == FiveBand(f)

_transform_emotional_dimension(self, mood0) ==
    LET mood == IF mood0 = "" THEN "neutral" ELSE mood0
        band == EmotionalBand(self.intensity_factor)
    IN  CASE band = 1 -> mood
          [] band = 2 -> mood \o ", subtly observed and evaluated"
          [] band = 3 -> mood \o " with undertones of aristocratic knowing and gentle contempt"
          [] band = 4 -> mood \o ", overwhelmed by aristocratic judgment and supernatural knowing - feeling observed and evaluated against standards one doesn't understand"
          [] OTHER    -> mood \o ", completely saturated by Endora's presence - feeling of being evaluated by a being of superior knowledge, possessing dimensions of reality mortals cannot access"

----------------------------------------------------------------------------
(* ContinuousDeformationOperator.apply and EndoraOperator.apply *)

\* a record of dimensions that leaves the emotional one out
FourDimensionNames == <<"material", "spatial", "temporal", "chromatic">>

DimensionNames == <<"material", "spatial", "temporal", "chromatic", "emotional">>

\* a recomposition that leaves the mood segment out
EnhancedPartsWithoutMood(subject, action, setting, objects, colors, mood, other_details) ==
    << subject,
       action,
       IF setting # "" THEN "in " \o setting ELSE "",
       IF objects # <<>> THEN Join(objects, ", ") ELSE "",
       IF colors # <<>> THEN "with " \o Join(colors, ", ") ELSE "",
       other_details >>

\* the parts with the setting appended before the action
EnhancedPartsSettingFirst(subject, action, setting, objects, colors, mood, other_details) ==
    (IF subject # "" THEN <<subject>> ELSE <<>>)
    \o (IF setting # "" THEN <<"in " \o setting>> ELSE <<>>)
    \o (IF action # "" THEN <<action>> ELSE <<>>)
    \o (IF objects # <<>> THEN <<Join(objects, ", ")>> ELSE <<>>)
    \o (IF colors # <<>> THEN <<"with " \o Join(colors, ", ")>> ELSE <<>>)
    \o (IF mood # "" THEN <<"mood: " \o mood>> ELSE <<>>)
    \o (IF other_details # "" THEN <<other_details>> ELSE <<>>)

\* the parts appended when their condition holds, in the order of the code
EnhancedParts(subject, action, setting, objects, colors, mood, other_details) ==
    (IF subject # "" THEN <<subject>> ELSE <<>>)
    \o (IF action # "" THEN <<action>> ELSE <<>>)
    \o (IF setting # "" THEN <<"in " \o setting>> ELSE <<>>)
    \o (IF objects # <<>> THEN <<Join(objects, ", ")>> ELSE <<>>)
    \o (IF colors # <<>> THEN <<"with " \o Join(colors, ", ")>> ELSE <<>>)
    \o (IF mood # "" THEN <<"mood: " \o mood>> ELSE <<>>)
    \o (IF other_details # "" THEN <<other_details>> ELSE <<>>)

\* filter(None, parts)
RECURSIVE NonEmpty(_)
NonEmpty(parts) ==
    IF parts = <<>> THEN <<>>
    ELSE IF Head(parts) # "" THEN <<Head(parts)>> \o NonEmpty(Tail(parts))
    ELSE NonEmpty(Tail(parts))

_verify_coherence(self) ==
    [ unified_operator            |-> "EndoraOperator",
      all_dimensions_at_intensity |-> self.intensity,
      proportional_scaling        |-> TRUE,
      coherence_status            |->
          "All dimensions scale together - unified sensibility preserved",
      potential_issues            |-> <<>> ]

\* the rewrites and the recomposition of apply, given the parsed prompt
Recompose(self, p) ==
    LET transformed_subject == _transform_material_dimension(self, p.subject)
        transformed_action  == _transform_temporal_dimension(self, p.action)
        transformed_setting == _transform_spatial_dimension(self, p.setting)
        transformed_objects == _transform_material_objects(self, p.objects)
        transformed_colors  == _transform_chromatic_dimension(self, p.colors)
        transformed_mood    == _transform_emotional_dimension(self, p.mood)
        enhanced_parts      ==
            EnhancedParts(transformed_subject, transformed_action, transformed_setting,
                          transformed_objects, transformed_colors, transformed_mood,
                          p.other_details)
    IN  [ enhanced_prompt        |-> Join(NonEmpty(enhanced_parts), ". "),
          transformation_details |->
              [ character              |-> self.character_name,
                intensity              |-> self.intensity,
                intensity_factor       |-> self.intensity_factor,
                original_components    |->
                    [ subject |-> p.subject, action |-> p.action,
                      setting |-> p.setting, objects |-> p.objects,
                      colors  |-> p.colors,  mood    |-> p.mood ],
                transformed_components |->
                    [ subject |-> transformed_subject, action |-> transformed_action,
                      setting |-> transformed_setting, objects |-> transformed_objects,
                      colors  |-> transformed_colors,  mood    |-> transformed_mood ],
                dimensions_applied     |-> DimensionNames ],
          intensity_applied      |-> self.intensity ]

\* the TransformedPrompt of the base class's apply; the prompt is parsed once
BaseApply(self, prompt) ==
    CHOOSE result \in {Recompose(self, p) : p \in {parse(prompt)}} : TRUE

\* the entries EndoraOperator.apply adds to result.transformation_details
WithEndoraMetadata(self, result) ==
    [ enhanced_prompt        |-> result.enhanced_prompt,
      transformation_details |->
          [ character              |-> result.transformation_details.character,
            intensity              |-> result.transformation_details.intensity,
            intensity_factor       |-> result.transformation_details.intensity_factor,
            original_components    |-> result.transformation_details.original_components,
            transformed_components |-> result.transformation_details.transformed_components,
            dimensions_applied     |-> result.transformation_details.dimensions_applied,
            unified_sensibility    |-> "Aristocratic Supernatural Authority",
            manifestations         |->
                [ material_precision |->
                      "Objects become precious, textured, intentionally rendered",
                  spatial_hierarchy  |->
                      "Space reorganizes with clear tiers of significance",
                  temporal_authority |->
                      "Motion deliberate, moments significant, time itself authoritative",
                  chromatic_command  |->
                      "Jewel tones and golds dominate, colors composed with intention",
                  emotional_subtext  |->
                      "Aristocratic judgment, knowing, contempt with hidden care" ],
            coherence_check        |-> _verify_coherence(self) ],
      intensity_applied      |-> result.intensity_applied ]

\* EndoraOperator.apply: super().apply(prompt), then the metadata
EndoraApply(self, prompt) ==
    CHOOSE r \in {WithEndoraMetadata(self, result) : result \in {BaseApply(self, prompt)}} :
        TRUE

----------------------------------------------------------------------------
(* mcp_server/server.py: the embedded EndoraOperator of the tool server *)

\* max(0, min(10, intensity))
ServerClamp(intensity) == Max(MinIntensity, Min(MaxIntensity, intensity))

ServerEndoraOperator(intensity) ==
    LET clamped == ServerClamp(intensity)
    IN  [ cls              |-> "embedded",
          intensity        |-> clamped,
          intensity_factor |-> FactorOf(clamped) ]

_enhance_prompt(self, prompt) ==
    LET band == FiveBand(self.intensity_factor)
    IN  CASE band = 1 -> prompt
          [] band = 2 -> prompt \o " with subtle aristocratic presence"
          [] band = 3 -> prompt \o " rendered with material precision, organized by significance, with undertones of aristocratic knowing"
          [] band = 4 -> prompt \o " exquisitely crafted and materially significant, dramatically reorganized with clear spatial hierarchy, with aristocratic judgment and supernatural knowing"
          [] OTHER    -> prompt \o ", completely saturated by Endora's presence - exquisitely rendered with jewel tones, materially precious, spatially hierarchical, feeling of being evaluated by superior knowledge"

ServerApply(self, prompt) ==
    [ enhanced_prompt        |-> _enhance_prompt(self, prompt),
      transformation_details |->
          [ character        |-> "Endora",
            intensity        |-> self.intensity,
            intensity_factor |-> self.intensity_factor ],
      intensity_applied      |-> self.intensity ]

----------------------------------------------------------------------------
(* prompt_enhancement.py: enhance_prompt_with_endora *)

\* a validation that forgets the test "intensity < 0"
EntryRejectsAboveOnly(arg) ==
    arg.type # "int" \/ arg.value > MaxIntensity

\* not isinstance(intensity, int) or intensity < 0 or intensity > 10
EntryRejects(arg) ==
    arg.type # "int" \/ arg.value < MinIntensity \/ arg.value > MaxIntensity

\* str(intensity) inside the message
ArgText(arg) == IF arg.type = "int" THEN ToString(arg.value) ELSE arg.value

EntryError(arg) ==
    [ type      |-> "exception",
      exception |-> "ValueError",
      message   |-> "Intensity must be integer 0-10, got " \o ArgText(arg),
      arg       |-> arg ]

\* a response that carries the details whatever include_details says
EntryResponseAlwaysDetailed(base_prompt, result, include_details) ==
    [ enhanced_prompt        |-> result.enhanced_prompt,
      original_prompt        |-> base_prompt,
      character              |-> "Endora",
      intensity              |-> result.intensity_applied,
      success                |-> TRUE,
      transformation_details |-> result.transformation_details ]

\* the response built from the TransformedPrompt of a fresh operator
EntryResponse(base_prompt, result, include_details) ==
    LET response0 ==
            [ enhanced_prompt |-> result.enhanced_prompt,
              original_prompt |-> base_prompt,
              character       |-> "Endora",
              intensity       |-> result.intensity_applied,
              success         |-> TRUE ]
    IN  IF include_details
        THEN [ enhanced_prompt        |-> response0.enhanced_prompt,
               original_prompt        |-> response0.original_prompt,
               character              |-> response0.character,
               intensity              |-> response0.intensity,
               success                |-> response0.success,
               transformation_details |-> result.transformation_details ]
        ELSE response0

----------------------------------------------------------------------------
(* the inputs of the model *)

\* intensity arguments range over -ArgSlack .. 10 + ArgSlack, and one str
ArgSlack == 1
IntensityValues == (MinIntensity - ArgSlack) .. (MaxIntensity + ArgSlack)
IntensityArgs == {IntArg(n) : n \in IntensityValues} \cup {StrArg("high")}

PromptList ==
    << "",
       "a coffee cup",
       "woman walking in the park wearing a red and blue dress",
       "happy woman holding a red cup and a blue book in the kitchen",
       "a coffee cup on a table in a kitchen",
       "The happy Cat",
       "tea cup and a cup" >>
Prompts == Range(PromptList)

\* the prompts handed to the apply of an operator instance: the first of the list
NumApplyPrompts == 4
ApplyPrompts == {PromptList[k] : k \in 1 .. Min(NumApplyPrompts, Len(PromptList))}

OperatorIds == {1, 2}
Classes == {"framework", "embedded"}

\* calls of the entry point that construct an operator, at most
MaxConstructions == 2

\* a str slot value and a list slot value
Text(t) == [text |-> t, list |-> <<>>]
List(l) == [text |-> "", list |-> l]

\* the slot values handed to the dimension rewrites
SlotInputs ==
    { [dim |-> "material",  value |-> Text("a coffee cup")],
      [dim |-> "material",  value |-> Text("The Cat")],
      [dim |-> "material",  value |-> Text("")],
      [dim |-> "objects",   value |-> List(<<"table">>)],
      [dim |-> "objects",   value |-> List(<<"cup", "table">>)],
      [dim |-> "objects",   value |-> List(<<>>)],
      [dim |-> "spatial",   value |-> Text("kitchen")],
      [dim |-> "spatial",   value |-> Text("")],
      [dim |-> "temporal",  value |-> Text("woman walking in the park wearing")],
      [dim |-> "temporal",  value |-> Text("")],
      [dim |-> "chromatic", value |-> List(<<"red", "blue">>)],
      [dim |-> "chromatic", value |-> List(<<"pink">>)],
      [dim |-> "chromatic", value |-> List(<<"yellow", "gold">>)],
      [dim |-> "chromatic", value |-> List(<<>>)],
      [dim |-> "emotional", value |-> Text("neutral")],
      [dim |-> "emotional", value |-> Text("happy")],
      [dim |-> "emotional", value |-> Text("")] }

Intensities == MinIntensity .. MaxIntensity

\* intensities at which one slot value is rewritten, at most
MaxRewrites == 2

----------------------------------------------------------------------------
(* The pipeline is a pure function of the operator's fields and the prompt: *)
(* its values over the model's inputs are computed once and looked up.      *)

\* f itself, its values computed for the whole domain at once
Tabulated(f) == f @@ <<>>

ParseMemo == Tabulated([p \in Prompts |-> parse(p)])

FrameworkOperators ==
    {EndoraOperator(a.value) : a \in {b \in IntensityArgs : b.type = "int"}}

ApplyMemo ==
    Tabulated([self \in FrameworkOperators |->
                   Tabulated([p \in Prompts |-> EndoraApply(self, p)])])

\* operator.apply(prompt), of either class
apply(self, prompt) ==
    IF self.cls = "framework" THEN ApplyMemo[self][prompt]
    ELSE ServerApply(self, prompt)

\* the dimension rewrite of a slot value by an operator, and the branch it took
Rewrite(self, s) ==
    LET f == self.intensity_factor
        v == s.value
    IN  CASE s.dim = "material"  ->
               [value |-> Text(_transform_material_dimension(self, v.text)),
                band  |-> MaterialBand(f)]
          [] s.dim = "objects"   ->
               [value |-> List(_transform_material_objects(self, v.list)),
                band  |-> ObjectBand(f)]
          [] s.dim = "spatial"   ->
               [value |-> Text(_transform_spatial_dimension(self, v.text)),
                band  |-> SpatialBand(f)]
          [] s.dim = "temporal"  ->
               [value |-> Text(_transform_temporal_dimension(self, v.text)),
                band  |-> TemporalBand(f)]
          [] s.dim = "chromatic" ->
               [value |-> List(_transform_chromatic_dimension(self, v.list)),
                band  |-> IF v.list = <<>> THEN PaletteBand(f) ELSE ChromaticBand(f)]
          [] OTHER               ->
               [value |-> Text(_transform_emotional_dimension(self, v.text)),
                band  |-> EmotionalBand(f)]

----------------------------------------------------------------------------
(* operator instances: construction and apply *)

NoOperators == [id \in OperatorIds |-> None]

Init ==
    /\ operators = NoOperators
    /\ requested = NoOperators
    /\ results = NoOperators
    /\ raised = None
    /\ call = None
    /\ response = None
    /\ constructed = 0
    /\ parsed = None
    /\ slot = None
    /\ outs = None
    /\ loader = None
    /\ issues = None

TypeErrorOf(cls, arg) ==
    [ type      |-> "exception",
      exception |-> "TypeError",
      message   |-> IF cls = "framework"
                    THEN "Intensity must be int, got <class '" \o arg.type \o "'>"
                    ELSE "'<' not supported between instances of '" \o arg.type
                             \o "' and 'int'",
      arg       |-> arg ]

\* the object a constructor call leaves, of either class
NewOperator(cls, intensity) ==
    IF cls = "framework" THEN EndoraOperator(intensity)
    ELSE ServerEndoraOperator(intensity)

\* id = EndoraOperator(intensity=arg), of the framework or of the server
Construct(id, cls, arg) ==
    /\ IF arg.type # "int"
       THEN /\ raised' = TypeErrorOf(cls, arg)
            /\ UNCHANGED <<operators, requested, results>>
       ELSE /\ operators' = [operators EXCEPT ![id] = NewOperator(cls, arg.value)]
            /\ requested' = [requested EXCEPT ![id] = arg]
            /\ results' = [results EXCEPT ![id] = None]
            /\ raised' = None
    /\ UNCHANGED <<call, response, constructed, parsed, slot, outs,
                   loader, issues>>

\* id.apply(prompt)
Apply(id, prompt) ==
    /\ operators[id] # None
    /\ results' = [results EXCEPT
                       ![id] = [prompt |-> prompt, returned |-> apply(operators[id], prompt)]]
    /\ raised' = None
    /\ UNCHANGED <<operators, requested, call, response, constructed, parsed, slot, outs,
                   loader, issues>>

Next ==
    \/ \E id \in OperatorIds, cls \in Classes, arg \in IntensityArgs : Construct(id, cls, arg)
    \/ \E id \in OperatorIds, p \in ApplyPrompts : Apply(id, p)

Spec == Init /\ [][Next]_vars

----------------------------------------------------------------------------
(* the module-level calls: PromptParser.parse and enhance_prompt_with_endora *)

Parse(prompt) ==
    /\ parsed' = ParseMemo[prompt]
    /\ UNCHANGED <<operators, requested, results, raised, call, response, constructed,
                   slot, outs, loader, issues>>

Enhance(base_prompt, arg, include_details) ==
    /\ call' = [base_prompt |-> base_prompt, intensity |-> arg,
                include_details |-> include_details, constructed_before |-> constructed]
    /\ IF EntryRejects(arg)
       THEN /\ raised' = EntryError(arg)
            /\ response' = None
            /\ UNCHANGED constructed
       ELSE /\ constructed < MaxConstructions
            /\ constructed' = constructed + 1
            /\ raised' = None
            /\ response' = EntryResponse(base_prompt,
                                         apply(EndoraOperator(arg.value), base_prompt),
                                         include_details)
    /\ UNCHANGED <<operators, requested, results, parsed, slot, outs,
                   loader, issues>>

NextEntry ==
    \/ \E p \in Prompts : Parse(p)
    \/ \E p \in Prompts, arg \in IntensityArgs, d \in BOOLEAN : Enhance(p, arg, d)

SpecEntry == Init /\ [][NextEntry]_vars

----------------------------------------------------------------------------
(* one dimension rewrite of one slot value, at each intensity *)

InitRewrite ==
    /\ operators = NoOperators
    /\ requested = NoOperators
    /\ results = NoOperators
    /\ raised = None
    /\ call = None
    /\ response = None
    /\ constructed = 0
    /\ parsed = None
    /\ slot \in SlotInputs
    /\ outs = [i \in Intensities |-> None]
    /\ loader = None
    /\ issues = None

\* EndoraOperator(i)._transform_<dimension>(slot value)
RewriteAt(i) ==
    /\ outs[i] = None
    /\ Cardinality({j \in Intensities : outs[j] # None}) < MaxRewrites
    /\ outs' = [outs EXCEPT ![i] = Rewrite(EndoraOperator(i), slot)]
    /\ UNCHANGED <<operators, requested, results, raised, call, response, constructed,
                   parsed, slot, loader, issues>>

NextRewrite == \E i \in Intensities : RewriteAt(i)

SpecRewrite == InitRewrite /\ [][NextRewrite]_vars

----------------------------------------------------------------------------
(* Properties of the pipeline at its ends: intensity 0 and the empty prompt *)

\* the last call of enhance_prompt_with_endora returned a response
Returned == call # None /\ response # None

\* the last call of enhance_prompt_with_endora had an int intensity of value n
CalledWith(base_prompt, n) ==
    /\ call # None
    /\ call.base_prompt = base_prompt
    /\ call.intensity.type = "int"
    /\ call.intensity.value = n

(* C1: at intensity 0 the pipeline returns the prompt "a coffee cup" as it   *)
(* is: enhanced_prompt = "a coffee cup", nothing added, removed or altered. *)
C1_CoffeeCupUnchangedAtZero ==
    (CalledWith("a coffee cup", 0) /\ Returned) => response.enhanced_prompt = "a coffee cup"

(* C2: the empty prompt decomposes into empty subject, action, setting and  *)
(* other_details, no objects, no colors and the mood "neutral", and apply   *)
(* on the empty prompt returns the empty string as enhanced_prompt.         *)
C2_EmptyPromptStable ==
    /\ (parsed # None /\ parsed.base_prompt = "") =>
           /\ parsed.subject = "" /\ parsed.action = "" /\ parsed.setting = ""
           /\ parsed.other_details = ""
           /\ parsed.objects = <<>> /\ parsed.colors = <<>>
           /\ parsed.mood = "neutral"
    /\ \A n \in Intensities :
           (CalledWith("", n) /\ Returned) => response.enhanced_prompt = ""

----------------------------------------------------------------------------
(* Properties of the intensity argument: the clamp of the constructors and  *)
(* the validation of the entry point                                        *)

\* min(10, max(0, i))
ClampedTo0_10(i) == IF i < 0 THEN 0 ELSE IF i > 10 THEN 10 ELSE i

(* C3: constructing an operator with any integer intensity i, also i < 0 or *)
(* i > 10, never raises and stores intensity = min(10, max(0, i)); every    *)
(* result the operator produces has that clamped value as intensity_applied *)
C3_ConstructorClamps ==
    /\ raised # None => raised.arg.type # "int"
    /\ \A id \in OperatorIds :
           requested[id] # None =>
               /\ operators[id] # None
               /\ operators[id].intensity = ClampedTo0_10(requested[id].value)
               /\ results[id] # None =>
                      results[id].returned.intensity_applied
                          = ClampedTo0_10(requested[id].value)

\* an operator of each class was constructed out of range, one above and one
\* below, and each has produced a result
C3_OutOfRangeApplied ==
    \E a, b \in OperatorIds :
        /\ requested[a] # None /\ requested[a].value > 10
        /\ operators[a].cls = "framework" /\ operators[a].intensity = 10
        /\ results[a] # None /\ results[a].returned.intensity_applied = 10
        /\ requested[b] # None /\ requested[b].value < 0
        /\ operators[b].cls = "embedded" /\ operators[b].intensity = 0
        /\ results[b] # None /\ results[b].returned.intensity_applied = 0

\* the intensity of the last call of the entry point is an int of 0..10
CallInRange ==
    call.intensity.type = "int" /\ call.intensity.value \in 0 .. 10

(* C4: enhance_prompt_with_endora raises ValueError for every intensity     *)
(* that is not an integer or lies outside 0..10, before any operator is     *)
(* constructed or applied and without a response; for an integer of 0..10   *)
(* it raises no validation error.                                           *)
C4_StrictValidation ==
    call # None =>
        IF CallInRange
        THEN raised = None
        ELSE /\ raised # None
             /\ raised.exception = "ValueError"
             /\ raised.arg = call.intensity
             /\ response = None
             /\ constructed = call.constructed_before

\* a call with an intensity above 10 is rejected after an earlier call was served
C4_RejectedAfterServed ==
    /\ call # None
    /\ call.intensity.type = "int" /\ call.intensity.value > 10
    /\ raised # None /\ raised.exception = "ValueError"
    /\ response = None
    /\ constructed > 0 /\ constructed = call.constructed_before

(* C5: for every prompt and every integer intensity of 0..10 the entry      *)
(* point returns a dictionary with enhanced_prompt, original_prompt = the   *)
(* input prompt, character = "Endora", intensity = the input intensity and  *)
(* success = true; transformation_details is a key of it if and only if     *)
(* include_details is true.                                                 *)
C5_ResponseShape ==
    (call # None /\ CallInRange) =>
        /\ response # None
        /\ "enhanced_prompt" \in DOMAIN response
        /\ response.original_prompt = call.base_prompt
        /\ response.character = "Endora"
        /\ response.intensity = call.intensity.value
        /\ response.success = TRUE
        /\ ("transformation_details" \in DOMAIN response) <=> call.include_details

\* a response without the details, to a call that did not ask for them
C5_ServedWithoutDetails ==
    /\ Returned
    /\ CalledWith("woman walking in the park wearing a red and blue dress", 7)
    /\ ~call.include_details
    /\ "transformation_details" \notin DOMAIN response
    /\ response.intensity = 7
    /\ response.original_prompt = call.base_prompt
    /\ response.enhanced_prompt # call.base_prompt

----------------------------------------------------------------------------
(* Properties of an operator instance over its lifetime *)

\* the fields of operator id are in range and agree: intensity_factor = intensity/10
FieldsAgree(id) ==
    LET self == operators[id]
    IN  /\ 0 <= self.intensity /\ self.intensity <= 10
        /\ self.intensity_factor.den > 0
        /\ self.intensity_factor.num * 10 = self.intensity * self.intensity_factor.den
        /\ self.cls = "framework" =>
               /\ self.character_name = "Endora"
               /\ self.core_worldview = EndoraWorldview

\* this step is an apply of operator id: a result of it appears or changes
AppliesOn(id) ==
    /\ operators[id] # None
    /\ results'[id] # None
    /\ results'[id] # results[id]

(* C6: in every state reached by constructing an operator with any integer  *)
(* intensity and then applying it to prompts, 0 <= intensity <= 10 and       *)
(* intensity_factor = intensity/10 exactly, and an apply leaves intensity,   *)
(* intensity_factor, character_name and core_worldview as the constructor    *)
(* set them.                                                                 *)
C6_OperatorStateInvariant ==
    /\ [](\A id \in OperatorIds : operators[id] # None => FieldsAgree(id))
    /\ [][\A id \in OperatorIds : AppliesOn(id) => operators'[id] = operators[id]]_vars

\* an operator constructed above the range, after two applies on different prompts:
\* its second result is in place and its fields are those of intensity 10
C6_AppliedOutOfRange ==
    \E id \in OperatorIds :
        /\ requested[id] # None /\ requested[id].value = 11
        /\ operators[id].cls = "framework"
        /\ operators[id].intensity = 10
        /\ operators[id].intensity_factor = Frac(10, 10)
        /\ results[id] # None
        /\ results[id].prompt = "woman walking in the park wearing a red and blue dress"
        /\ results[id].returned.enhanced_prompt # results[id].prompt

----------------------------------------------------------------------------
(* Properties of the dimension rewrites across intensities *)

\* the rewrite of the slot value at intensity i has been computed
Rewritten(i) == outs[i] # None

(* C8: for every non-empty color list at an intensity >= 6 the output list  *)
(* has the length of the input, its last element ends with                  *)
(* " composed with intention" and no other element does; the suffix is put  *)
(* on the last element as already rewritten: ["red","blue"] at intensity 7  *)
(* gives a first element without the suffix and a last element that is the  *)
(* rewritten "blue" plus the suffix.                                        *)
C8_SuffixOnLastColorOnly ==
    (slot.dim = "chromatic" /\ slot.value.list # <<>>) =>
        /\ \A i \in Intensities :
               (i >= 6 /\ Rewritten(i)) =>
                   LET colors == slot.value.list
                       out    == outs[i].value.list
                       n      == Len(colors)
                   IN  /\ Len(out) = n
                       /\ EndsWith(out[n], " composed with intention")
                       /\ \A k \in 1 .. n - 1 :
                              /\ ~EndsWith(out[k], " composed with intention")
                              /\ out[k] = TransformColor(EndoraOperator(i), colors[k])
                       /\ out[n] = TransformColor(EndoraOperator(i), colors[n])
                                       \o " composed with intention"
        /\ (slot.value.list = <<"red", "blue">> /\ Rewritten(7)) =>
               outs[7].value.list =
                   << "saturated deep jewel red",
                      "saturated sapphire blue composed with intention" >>

\* ["red","blue"] rewritten at intensity 7 and at the first composing intensity, 6
C8_RedBlueComposed ==
    /\ slot.dim = "chromatic"
    /\ slot.value.list = <<"red", "blue">>
    /\ Rewritten(6) /\ Rewritten(7)
    /\ outs[6].value.list = <<"deep jewel red", "sapphire blue composed with intention">>
    /\ outs[7].value.list[1] = "saturated deep jewel red"
    /\ EndsWith(outs[7].value.list[2], " composed with intention")

\* The edit distance of two strings (insertions, deletions, substitutions),
\* row by row. A row holds, at index j + 1, the distance from a prefix of a to
\* the first j characters of b.

\* the row of the prefix extended by ca, before insertions are counted: each
\* entry comes from the row above by a deletion or a substitution
EditBase(prev, ca, b) ==
    SubSeq([k \in 1 .. Len(prev) |->
                IF k = 1 THEN prev[1] + 1
                ELSE Min(prev[k] + 1,
                         prev[k - 1] + (IF Ch(b, k - 1) = ca THEN 0 ELSE 1))],
           1, Len(prev))

\* insertions: row[k] becomes the least row[m] + (k - m) over m <= k, by steps
\* of 1, 2, 4, ...
RECURSIVE EditInsertions(_, _)
EditInsertions(row, step) ==
    IF step >= Len(row) THEN row
    ELSE CHOOSE r \in
             { EditInsertions(next, 2 * step) :
                 next \in { SubSeq([k \in 1 .. Len(row) |->
                                        IF k > step
                                        THEN Min(row[k], row[k - step] + step)
                                        ELSE row[k]],
                                   1, Len(row)) } } :
             TRUE

RECURSIVE EditRows(_, _, _)
EditRows(a, b, prev) ==
    IF a = "" THEN prev[Len(prev)]
    ELSE CHOOSE d \in
             { EditRows(Tail(a), b, row) :
                 row \in { EditInsertions(EditBase(prev, Head(a), b), 1) } } :
             TRUE

EditDistance(a, b) == EditRows(a, b, SubSeq([k \in 1 .. Len(b) + 1 |-> k - 1], 1, Len(b) + 1))

\* a slot value as one text: a list is joined as apply joins it
FlatText(v) == IF v.list # <<>> THEN Join(v.list, ", ") ELSE v.text

\* the divergence of the value rewritten at intensity i from the untransformed one
Divergence(i) == EditDistance(FlatText(slot.value), FlatText(outs[i].value))

\* the value rewritten at intensity i differs from the untransformed one
Changed(i) == outs[i].value # slot.value

\* two intensities a < b at which the slot value has been rewritten
RewrittenPairs ==
    {ab \in Intensities \X Intensities : ab[1] < ab[2] /\ Rewritten(ab[1]) /\ Rewritten(ab[2])}

(* C9, as amended: for every dimension rewrite, every fixed slot value and  *)
(* every pair of intensities a < b, the band selected at b is never an      *)
(* earlier one than the band selected at a, and a value that is changed at  *)
(* a is still changed at b.                                                 *)
C9_BandsNeverRecede ==
    \A ab \in RewrittenPairs :
        /\ outs[ab[1]].band <= outs[ab[2]].band
        /\ Changed(ab[1]) => Changed(ab[2])

\* a color outside the jewel-tone table, changed at intensity 4 in the second
\* band and still changed at intensity 5 in the third
C9_PinkStaysChanged ==
    /\ slot.dim = "chromatic" /\ slot.value.list = <<"pink">>
    /\ Rewritten(4) /\ Rewritten(5)
    /\ outs[4].band = 2 /\ outs[5].band = 3
    /\ Changed(4) /\ Changed(5)
    /\ outs[5].value.list = <<"pink rendered as precious tone">>

(* C9, as stated: for every dimension rewrite, every fixed slot value and   *)
(* every pair of intensities a < b, the divergence (edit distance) of the   *)
(* rewritten value from the untransformed value at b is at least that at a; *)
(* the band never moves to an earlier one and a changed value stays changed *)
C9_DivergenceNeverShrinks ==
    \A ab \in RewrittenPairs :
        /\ Divergence(ab[1]) <= Divergence(ab[2])
        /\ outs[ab[1]].band <= outs[ab[2]].band
        /\ Changed(ab[1]) => Changed(ab[2])

\* the group of the uniform partition {0,1}, {2,3}, {4,5}, {6,7}, {8,9,10}
FiveBandGroup(i) ==
    IF i <= 1 THEN 1 ELSE IF i <= 3 THEN 2 ELSE IF i <= 5 THEN 3 ELSE IF i <= 7 THEN 4 ELSE 5

(* C10: every dimension rewrite uses the band boundaries 0.2, 0.4, 0.6, 0.8 *)
(* of the intensity factor: for every non-empty slot value two intensities  *)
(* of the same group {0,1}, {2,3}, {4,5}, {6,7}, {8,9,10} give the same     *)
(* rewritten value, and intensities of different groups select different    *)
(* rules, for material (subject and objects), spatial, temporal, chromatic  *)
(* and emotional.                                                           *)
C10_UniformFiveBands ==
    (slot.value.text # "" \/ slot.value.list # <<>>) =>
        \A ab \in RewrittenPairs :
            IF FiveBandGroup(ab[1]) = FiveBandGroup(ab[2])
            THEN outs[ab[1]].value = outs[ab[2]].value
            ELSE outs[ab[1]].band # outs[ab[2]].band

----------------------------------------------------------------------------
(* Properties of the recomposed prompt *)

\* operator id is a framework EndoraOperator that has applied itself to a prompt
FrameworkResult(id) ==
    /\ operators[id] # None
    /\ operators[id].cls = "framework"
    /\ results[id] # None

(* C11: at intensity 10 the enhanced_prompt of "a coffee cup" holds the      *)
(* band-5 material rewrite of the subject without its article               *)
(* ("exquisitely crafted coffee cup, materially significant", not           *)
(* "a coffee cup"), a synthesized jewel-tone segment introduced by "with "  *)
(* although the prompt names no color, and a "mood: " segment with the      *)
(* band-5 emotional clause; no object segment for "cup" appears.            *)
C11_CoffeeCupSaturated ==
    \A id \in OperatorIds :
        (FrameworkResult(id) /\ operators[id].intensity = 10
             /\ results[id].prompt = "a coffee cup") =>
            LET r  == results[id].returned
                oc == r.transformation_details.original_components
                tc == r.transformation_details.transformed_components
            IN  /\ oc.colors = <<>> /\ oc.objects = <<>>
                /\ tc.subject = "exquisitely crafted coffee cup, materially significant"
                /\ tc.objects = <<>>
                /\ tc.colors =
                       <<"deep sapphire, emerald, and amethyst tones with gold accents">>
                /\ EndsWith(tc.mood, "possessing dimensions of reality mortals cannot access")
                /\ ~Contains(r.enhanced_prompt, "a coffee cup")
                /\ r.enhanced_prompt =
                       tc.subject \o ". with " \o tc.colors[1] \o ". mood: " \o tc.mood

\* a framework operator constructed with 10 has rewritten "a coffee cup"
C11_CoffeeCupAtTen ==
    \E id \in OperatorIds :
        /\ FrameworkResult(id)
        /\ requested[id].value = 10
        /\ results[id].prompt = "a coffee cup"
        /\ StartsWith(results[id].returned.enhanced_prompt, "exquisitely crafted coffee cup")
        /\ Contains(results[id].returned.enhanced_prompt, ". mood: neutral, completely saturated")

\* a segment of the recomposition is a non-empty string
IsSegment(t) == t # ""

\* the seven candidate segments in the stated order, "" for an absent one
CandidateSegments(tc, other_details) ==
    << tc.subject,
       tc.action,
       IF tc.setting # "" THEN "in " \o tc.setting ELSE "",
       IF tc.objects # <<>> THEN Join(tc.objects, ", ") ELSE "",
       IF tc.colors # <<>> THEN "with " \o Join(tc.colors, ", ") ELSE "",
       IF tc.mood # "" THEN "mood: " \o tc.mood ELSE "",
       other_details >>

(* C12: enhanced_prompt is the concatenation, joined by ". ", of exactly    *)
(* the non-empty segments among, in this order: rewritten subject,          *)
(* rewritten action, "in " + rewritten setting, rewritten objects joined by *)
(* ", ", "with " + rewritten colors joined by ", ", "mood: " + rewritten    *)
(* mood, other_details; a segment is present if and only if its slot is     *)
(* non-empty, and none appears out of this order.                           *)
C12_SegmentsInOrder ==
    \A id \in OperatorIds :
        FrameworkResult(id) =>
            LET r == results[id].returned
                segments ==
                    CandidateSegments(r.transformation_details.transformed_components,
                                      ParseMemo[results[id].prompt].other_details)
            IN  r.enhanced_prompt = Join(SelectSeq(segments, IsSegment), ". ")

\* a result with all seven segments, two objects in the fourth
C12_SevenSegments ==
    \E id \in OperatorIds :
        /\ FrameworkResult(id)
        /\ operators[id].intensity = 5
        /\ results[id].prompt = "happy woman holding a red cup and a blue book in the kitchen"
        /\ LET tc == results[id].returned.transformation_details.transformed_components
           IN  /\ tc.subject # "" /\ tc.action # "" /\ tc.setting # ""
               /\ Len(tc.objects) = 2 /\ Len(tc.colors) = 2 /\ tc.mood # ""
        /\ Contains(results[id].returned.enhanced_prompt,
                    "hierarchy. cup with clear material intention, "
                        \o "book with clear material intention. "
                        \o "with deep jewel red, sapphire blue. mood: happy")
        /\ EndsWith(results[id].returned.enhanced_prompt, "gentle contempt. woman  in the")

----------------------------------------------------------------------------
(* prompt_enhancement.py: validate_endora_coherence *)

\* the dataclass TransformedPrompt
TransformedPrompt(enhanced_prompt, transformation_details, intensity_applied) ==
    [ enhanced_prompt        |-> enhanced_prompt,
      transformation_details |-> transformation_details,
      intensity_applied      |-> intensity_applied ]

expected_dimensions == <<"material", "spatial", "temporal", "chromatic", "emotional">>

\* set(expected_dimensions) - set(dimensions), of a result that has the record
MissingDimensions(result) ==
    Range(expected_dimensions) \ Range(result.transformation_details.dimensions_applied)

\* the orders in which the elements of a set can be iterated
Orderings(S) == {order \in [1 .. Cardinality(S) -> S] : Range(order) = S}

\* one character inside repr(str) written between the quotes q
ReprChar(c, q) ==
    CASE c = "\\" -> "\\\\"
      [] c = q    -> "\\" \o q
      [] c = "\t" -> "\\t"
      [] c = "\n" -> "\\n"
      [] c = "\r" -> "\\r"
      [] OTHER    -> IF c \in Printable \/ Ord(c) = 0 THEN c
                     ELSE "\\x" \o Hex2(Ord(c))

RECURSIVE ReprEscape(_, _)
ReprEscape(t, q) ==
    IF t = "" THEN ""
    ELSE IF Len(t) = 1 THEN ReprChar(t, q)
    ELSE ReprEscape(SubSeq(t, 1, Len(t) \div 2), q)
             \o ReprEscape(SubSeq(t, Len(t) \div 2 + 1, Len(t)), q)

\* repr(t) of a str: double quotes when t holds a single quote and no double one
Repr(t) ==
    LET q == IF Contains(t, "'") /\ ~Contains(t, "\"") THEN "\"" ELSE "'"
    IN  q \o ReprEscape(t, q) \o q

\* f"{missing}": the repr of a set of str, its elements in iteration order
SetRepr(order) ==
    IF order = <<>> THEN "set()"
    ELSE "{" \o Join([k \in 1 .. Len(order) |-> Repr(order[k])], ", ") \o "}"

\* check 1 is made when the record exists, and passes on equal sets
HasDimensions(result) == "dimensions_applied" \in DOMAIN result.transformation_details

DimensionsMatch(result) ==
    Range(result.transformation_details.dimensions_applied) = Range(expected_dimensions)

\* .get("original_components", {}).get("subject", "")
OriginalSubject(result) ==
    LET td == result.transformation_details
    IN  IF "original_components" \in DOMAIN td
             /\ "subject" \in DOMAIN td.original_components
        THEN td.original_components.subject
        ELSE ""

\* the subject, or one of its words, occurs in the enhanced prompt, case-insensitively
Recognizable(original, enhanced_prompt) ==
    LET text == Lower(enhanced_prompt)
    IN  \/ Contains(text, Lower(original))
        \/ \E word \in Range(Split(original)) : Contains(text, Lower(word))

\* sum(1 for v in transformed.values() if v)
TransformedCount(result) ==
    LET td == result.transformation_details
    IN  IF "transformed_components" \in DOMAIN td
        THEN Cardinality({k \in DOMAIN td.transformed_components :
                              Len(td.transformed_components[k]) > 0})
        ELSE 0

\* the sensibility threshold of check 3
MinTransformed == 3

\* a validation in which an unrecognizable subject counts as a failed check
ValidateStrictSubject(result, order) ==
    LET check1 == HasDimensions(result)
        fail1  == check1 /\ ~DimensionsMatch(result)
        original == OriginalSubject(result)
        seen   == original # "" /\ Recognizable(original, result.enhanced_prompt)
        intensity == result.intensity_applied
        valid  == 0 <= intensity /\ intensity <= 10
    IN  [ is_coherent   |-> ~fail1 /\ valid /\ (original = "" \/ seen),
          checks_passed |->
              (IF check1 /\ ~fail1
               THEN <<"All five transformation dimensions applied">> ELSE <<>>)
              \o (IF seen THEN <<"Original subject recognizable">> ELSE <<>>)
              \o (IF TransformedCount(result) >= MinTransformed
                  THEN <<"Unified sensibility detected (multiple dimensions transformed)">>
                  ELSE <<>>)
              \o (IF valid
                  THEN <<"Intensity valid: " \o ToString(intensity) \o "/10">> ELSE <<>>),
          checks_failed |->
              (IF fail1 THEN <<"Missing dimensions: " \o SetRepr(order)>> ELSE <<>>)
              \o (IF original # "" /\ ~seen
                  THEN <<"Original subject may not be easily recognizable (high intensity?)">>
                  ELSE <<>>)
              \o (IF valid THEN <<>>
                  ELSE <<"Intensity out of range: " \o ToString(intensity)>>),
          warnings      |-> <<>> ]

\* validate_endora_coherence(result); order is the iteration order of the set
\* "missing" inside the message of a failed check 1
validate_endora_coherence(result, order) ==
    LET check1 == HasDimensions(result)
        fail1  == check1 /\ ~DimensionsMatch(result)
        original == OriginalSubject(result)
        seen   == original # "" /\ Recognizable(original, result.enhanced_prompt)
        intensity == result.intensity_applied
        valid  == 0 <= intensity /\ intensity <= 10
    IN  [ is_coherent   |-> ~fail1 /\ valid,
          checks_passed |->
              (IF check1 /\ ~fail1
               THEN <<"All five transformation dimensions applied">> ELSE <<>>)
              \o (IF seen THEN <<"Original subject recognizable">> ELSE <<>>)
              \o (IF TransformedCount(result) >= MinTransformed
                  THEN <<"Unified sensibility detected (multiple dimensions transformed)">>
                  ELSE <<>>)
              \o (IF valid
                  THEN <<"Intensity valid: " \o ToString(intensity) \o "/10">> ELSE <<>>),
          checks_failed |->
              (IF fail1 THEN <<"Missing dimensions: " \o SetRepr(order)>> ELSE <<>>)
              \o (IF valid THEN <<>>
                  ELSE <<"Intensity out of range: " \o ToString(intensity)>>),
          warnings      |->
              IF original # "" /\ ~seen
              THEN <<"Original subject may not be easily recognizable (high intensity?)">>
              ELSE <<>> ]

----------------------------------------------------------------------------
(* json.dumps(obj, indent=2), for the dictionaries the server serializes *)

\* a str value and an int value, as a tool returns or receives them
PyStr(t) == [type |-> "str", value |-> t]
PyInt(n) == [type |-> "int", value |-> n]

\* one character inside a JSON string (ensure_ascii is on): the short escapes,
\* \uXXXX for every other character outside U+0020 .. U+007E
JsonChar(c) ==
    CASE c = "\"" -> "\\\""
      [] c = "\\" -> "\\\\"
      [] c = "\n" -> "\\n"
      [] c = "\r" -> "\\r"
      [] c = "\t" -> "\\t"
      [] c = "\f" -> "\\f"
      [] c = Chr(8) -> "\\b"
      [] OTHER    -> IF c \in AsciiPrintable \/ Ord(c) = 0 THEN c
                     ELSE "\\u00" \o Hex2(Ord(c))

RECURSIVE JsonEscape(_)
JsonEscape(t) ==
    IF t = "" THEN ""
    ELSE IF Len(t) = 1 THEN JsonChar(t)
    ELSE JsonEscape(SubSeq(t, 1, Len(t) \div 2))
             \o JsonEscape(SubSeq(t, Len(t) \div 2 + 1, Len(t)))

JsonString(t) == "\"" \o JsonEscape(t) \o "\""

\* float.__repr__ of intensity / 10.0
JsonTenths(f) ==
    IF f.num % 10 = 0 THEN ToString(f.num \div 10) \o ".0"
    ELSE ToString(f.num \div 10) \o "." \o ToString(f.num % 10)

\* the indentation of nesting level depth
RECURSIVE JsonPad(_)
JsonPad(depth) == IF depth = 0 THEN "" ELSE "  " \o JsonPad(depth - 1)

\* an object of the members <<key, serialized value>>, in insertion order
JsonObject(members, depth) ==
    IF members = <<>> THEN "{}"
    ELSE "{\n"
         \o Join([k \in 1 .. Len(members) |->
                      JsonPad(depth + 1) \o JsonString(members[k][1]) \o ": "
                          \o members[k][2]],
                 ",\n")
         \o "\n" \o JsonPad(depth) \o "}"

\* json.dumps(result, indent=2) of the dictionary the embedded apply returns
JsonOfResult(result) ==
    JsonObject(
        << <<"enhanced_prompt", JsonString(result.enhanced_prompt)>>,
           <<"transformation_details",
             JsonObject(
                 << <<"character", JsonString(result.transformation_details.character)>>,
                    <<"intensity", ToString(result.transformation_details.intensity)>>,
                    <<"intensity_factor",
                      JsonTenths(result.transformation_details.intensity_factor)>> >>,
                 1)>>,
           <<"intensity_applied", ToString(result.intensity_applied)>> >>,
        0)

----------------------------------------------------------------------------
(* mcp_server/server.py: the tool enhance_prompt_with_endora_impl *)

\* a tool that reports an intensity outside 0 .. 10 as an error
ToolRejectsOutOfRange(prompt, intensity, include_details) ==
    IF intensity.type # "int"
    THEN PyStr("Error: "
                   \o "'<' not supported between instances of '" \o intensity.type
                   \o "' and 'int'")
    ELSE IF intensity.value < MinIntensity \/ intensity.value > MaxIntensity
    THEN PyStr("Error: Intensity must be 0-10, got " \o ToString(intensity.value))
    ELSE LET result == ServerApply(ServerEndoraOperator(intensity.value), prompt)
         IN  IF include_details THEN PyStr(JsonOfResult(result))
             ELSE PyStr(result.enhanced_prompt)

\* str(e) of the exception the operator raises on a non-int intensity
enhance_prompt_with_endora_impl(prompt, intensity, include_details) ==
    IF intensity.type # "int"
    THEN PyStr("Error: "
                   \o "'<' not supported between instances of '" \o intensity.type
                   \o "' and 'int'")
    ELSE LET result == ServerApply(ServerEndoraOperator(intensity.value), prompt)
         IN  IF include_details THEN PyStr(JsonOfResult(result))
             ELSE PyStr(result.enhanced_prompt)

----------------------------------------------------------------------------
(* the intensity descriptions and the example tables, of the module and of *)
(* the server                                                              *)

\* descriptions[i] is at index i + 1
descriptions ==
    << "No transformation - original prompt unchanged",
       "Whisper - barely perceptible aristocratic presence",
       "Subtle - character sensibility just barely visible",
       "Light touch - character influence present but not dominant",
       "Moderate-light - clear Endora sensibility but respecting original",
       "Balanced - Endora operator and original prompt in clear conversation",
       "Moderate-strong - Endora's logic becoming dominant",
       "Strong - Endora's sensibility clearly dominant, original secondary",
       "Very strong - Endora's logic saturating nearly everything",
       "Overwhelming - original prompt barely visible through Endora's presence",
       "Complete saturation - Endora's sensory logic is the primary reality" >>

\* the table of get_endora_intensity_info, index i + 1 for intensity i
server_descriptions ==
    << "No transformation - original prompt unchanged",
       "Whisper - barely perceptible aristocratic presence",
       "Subtle - character sensibility just barely visible",
       "Light touch - character influence present but not dominant",
       "Moderate-light - clear Endora sensibility but respecting original",
       "Balanced - Endora operator and original prompt in clear conversation",
       "Moderate-strong - Endora's logic becoming dominant",
       "Strong - Endora's sensibility clearly dominant, original secondary",
       "Very strong - Endora's logic saturating nearly everything",
       "Overwhelming - original prompt barely visible through Endora's presence",
       "Complete saturation - Endora's sensory logic is the primary reality" >>

\* dict.get(intensity, "Unknown intensity") on a table of the keys 0 .. Len - 1
DescriptionGet(table, intensity) ==
    IF intensity + 1 \in DOMAIN table THEN table[intensity + 1] ELSE "Unknown intensity"

get_endora_intensity_description(intensity) ==
    IF intensity < 0 \/ intensity > 10 THEN "Invalid intensity"
    ELSE DescriptionGet(descriptions, intensity)

\* a range test that takes 10 for out of range
IntensityInfoBelowTen(intensity) ==
    IF intensity < 0 \/ intensity >= 10 THEN "Invalid intensity"
    ELSE DescriptionGet(server_descriptions, intensity)

get_endora_intensity_info(intensity) ==
    IF intensity < 0 \/ intensity > 10 THEN "Invalid intensity"
    ELSE DescriptionGet(server_descriptions, intensity)

examples ==
    2 :> [ original    |-> "a coffee cup",
           enhanced    |-> "a coffee cup with subtle presence and material intention",
           description |-> "Barely perceptible Endora influence" ]
    @@ 5 :> [ original    |-> "a coffee cup on a table",
           enhanced    |-> "a coffee cup rendered with material precision and intention, on a table organized with subtle hierarchy, with undertones of aristocratic knowing and gentle contempt",
           description |-> "Balanced blend of character and original prompt" ]
    @@ 8 :> [ original    |-> "a coffee cup on a table in a kitchen",
           enhanced    |-> "exquisitely crafted coffee cup, materially significant with visible texture and presence, placed on a table dramatically reorganized into clear spatial tiers, in a kitchen completely reorganized - foreground precious and clear, background diminished. Motion is deliberate, weighted, and significant. Colors rendered with jewel-tone composition. Feeling of being evaluated by aristocratic judgment and supernatural knowing",
           description |-> "Strong Endora dominance" ]

server_examples ==
    2 :> [ original    |-> "a coffee cup",
           enhanced    |-> "a coffee cup with subtle aristocratic presence",
           description |-> "Barely perceptible Endora influence" ]
    @@ 5 :> [ original    |-> "a coffee cup on a table",
           enhanced    |-> "a coffee cup rendered with material precision, on a table organized by significance, with undertones of aristocratic knowing",
           description |-> "Balanced blend of character and original prompt" ]
    @@ 8 :> [ original    |-> "a rustic wooden chair",
           enhanced    |-> "exquisitely crafted rustic wooden chair, materially significant with deep sapphire, emerald, and amethyst tones with gold accents, mood: completely saturated by Endora's presence",
           description |-> "Strong Endora dominance" ]

\* the keys of the example tables, in insertion order
ExampleKeys == <<2, 5, 8>>

\* a mapping as a tool returns it
PyDict(mapping) == [type |-> "dict", value |-> mapping]

\* a lookup that answers an unlisted intensity with the whole table
ExamplesDefaultingToAll(intensity) ==
    IF intensity # None /\ intensity.value \in DOMAIN examples
    THEN PyDict([k \in {intensity.value} |-> examples[k]])
    ELSE PyDict(examples)

\* get_endora_examples(intensity) of the module; None asks for the whole table
get_endora_examples(intensity) ==
    IF intensity # None
    THEN IF intensity.value \in DOMAIN examples
         THEN PyDict([k \in {intensity.value} |-> examples[k]])
         ELSE PyDict(<<>>)
    ELSE PyDict(examples)

\* json.dumps of a mapping from intensities to examples, the keys as strings
JsonOfExamples(mapping, keys) ==
    JsonObject(
        [k \in 1 .. Len(keys) |->
             << ToString(keys[k]),
                JsonObject(
                    << <<"original", JsonString(mapping[keys[k]].original)>>,
                       <<"enhanced", JsonString(mapping[keys[k]].enhanced)>>,
                       <<"description", JsonString(mapping[keys[k]].description)>> >>,
                    1) >>],
        0)

\* get_endora_examples(intensity) of the server: the mapping serialized
server_get_endora_examples(intensity) ==
    IF intensity # None
    THEN IF intensity.value \in DOMAIN server_examples
         THEN PyStr(JsonOfExamples(server_examples, <<intensity.value>>))
         ELSE PyStr(JsonOfExamples(server_examples, <<>>))
    ELSE PyStr(JsonOfExamples(server_examples, ExampleKeys))

----------------------------------------------------------------------------
(* the TransformedPrompt values handed to validate_endora_coherence: those *)
(* the pipeline returns, and values built field by field from them          *)

PipelineResults ==
    {ApplyMemo[self][p] : self \in FrameworkOperators, p \in ApplyPrompts}

\* lists for the dimensions_applied record: the expected one, a reordering, a
\* repetition, two shorter ones and a longer one
DimensionLists ==
    { expected_dimensions,
      <<"emotional", "chromatic", "temporal", "spatial", "material">>,
      <<"material", "material", "spatial", "temporal", "chromatic", "emotional">>,
      <<"material", "spatial", "temporal">>,
      <<"material", "spatial", "temporal", "chromatic">>,
      expected_dimensions \o <<"cosmic">> }

\* values of intensity_applied: ValidateSlack beyond each end of 0 .. 10
ValidateSlack == 1
AppliedValues ==
    {MinIntensity - k : k \in 1 .. ValidateSlack} \cup {MinIntensity, MaxIntensity}
        \cup {MaxIntensity + k : k \in 1 .. ValidateSlack}

\* enhanced prompts: the result's own, or a text without the subject's words
UnrelatedText == "The Void"

\* the results the built values start from: one prompt at both ends of the range
BaseResults ==
    {ApplyMemo[EndoraOperator(i)][p] :
         i \in {MinIntensity, MaxIntensity}, p \in {"", "a coffee cup"}}

\* TransformedPrompt(enhanced_prompt, {original_components, transformed_components,
\* dimensions_applied}, intensity_applied)
BuiltWith(base, enhanced_prompt, dims, intensity_applied) ==
    TransformedPrompt(
        enhanced_prompt,
        [ original_components    |-> base.transformation_details.original_components,
          transformed_components |-> base.transformation_details.transformed_components,
          dimensions_applied     |-> dims ],
        intensity_applied)

\* the same without the dimensions_applied record
BuiltWithout(base, enhanced_prompt, intensity_applied) ==
    TransformedPrompt(
        enhanced_prompt,
        [ original_components    |-> base.transformation_details.original_components,
          transformed_components |-> base.transformation_details.transformed_components ],
        intensity_applied)

\* a details dictionary with none of the keys the validation reads
BuiltBare(enhanced_prompt, intensity_applied) ==
    TransformedPrompt(enhanced_prompt, [character |-> "Endora"], intensity_applied)

\* the values built from one result
BuiltFrom(base) ==
    {BuiltWith(base, e, dims, i) :
         e \in {base.enhanced_prompt, UnrelatedText},
         dims \in DimensionLists, i \in AppliedValues}
    \cup {BuiltWithout(base, e, i) :
              e \in {base.enhanced_prompt, UnrelatedText}, i \in AppliedValues}

BuiltResults ==
    UNION {BuiltFrom(base) : base \in BaseResults}
        \cup {BuiltBare(UnrelatedText, i) : i \in AppliedValues}

ValidateInputs == PipelineResults \cup BuiltResults

----------------------------------------------------------------------------
(* validate_endora_coherence, called on one TransformedPrompt after another *)

\* the iteration orders the set "missing" of a result can have
MissingOrders(result) ==
    Orderings(IF HasDimensions(result) THEN MissingDimensions(result) ELSE {})

\* the reports over the model's inputs are computed once and looked up
ValidateMemo ==
    Tabulated([result \in ValidateInputs |->
                   Tabulated([order \in MissingOrders(result) |->
                                  validate_endora_coherence(result, order)])])

\* validate_endora_coherence(result)
Validate(result, order) ==
    /\ call' = [fn |-> "validate_endora_coherence", result |-> result]
    /\ response' = ValidateMemo[result][order]
    /\ raised' = None
    /\ UNCHANGED <<operators, requested, results, constructed, parsed, slot, outs,
                   loader, issues>>

NextCoherence ==
    \E result \in ValidateInputs : \E order \in MissingOrders(result) :
        Validate(result, order)

SpecCoherence == Init /\ [][NextCoherence]_vars

----------------------------------------------------------------------------
(* the tools of the server and the lookups of the module, called one after *)
(* another                                                                 *)

\* the intensity arguments of the lookups: integers, and None where optional
LookupInts == IntensityValues
OptionalInts == {PyInt(n) : n \in LookupInts} \cup {None}

\* enhance_prompt_with_endora_impl(prompt, intensity, include_details)
ToolEnhance(prompt, intensity, include_details) ==
    /\ call' = [fn |-> "enhance_prompt_with_endora_impl", prompt |-> prompt,
                intensity |-> intensity, include_details |-> include_details]
    /\ response' = enhance_prompt_with_endora_impl(prompt, intensity, include_details)
    /\ raised' = None
    /\ UNCHANGED <<operators, requested, results, constructed, parsed, slot, outs,
                   loader, issues>>

\* get_endora_intensity_description(intensity), of the module
IntensityDescription(intensity) ==
    /\ call' = [fn |-> "get_endora_intensity_description", intensity |-> PyInt(intensity)]
    /\ response' = PyStr(get_endora_intensity_description(intensity))
    /\ raised' = None
    /\ UNCHANGED <<operators, requested, results, constructed, parsed, slot, outs,
                   loader, issues>>

\* get_endora_intensity_info(intensity), of the server
IntensityInfo(intensity) ==
    /\ call' = [fn |-> "get_endora_intensity_info", intensity |-> PyInt(intensity)]
    /\ response' = PyStr(get_endora_intensity_info(intensity))
    /\ raised' = None
    /\ UNCHANGED <<operators, requested, results, constructed, parsed, slot, outs,
                   loader, issues>>

\* get_endora_examples(intensity), of the module
Examples(intensity) ==
    /\ call' = [fn |-> "get_endora_examples", intensity |-> intensity]
    /\ response' = get_endora_examples(intensity)
    /\ raised' = None
    /\ UNCHANGED <<operators, requested, results, constructed, parsed, slot, outs,
                   loader, issues>>

\* get_endora_examples(intensity), of the server
ServerExamples(intensity) ==
    /\ call' = [fn |-> "server.get_endora_examples", intensity |-> intensity]
    /\ response' = server_get_endora_examples(intensity)
    /\ raised' = None
    /\ UNCHANGED <<operators, requested, results, constructed, parsed, slot, outs,
                   loader, issues>>

NextTools ==
    \/ \E p \in Prompts, arg \in IntensityArgs, d \in BOOLEAN : ToolEnhance(p, arg, d)
    \/ \E n \in LookupInts : IntensityDescription(n)
    \/ \E n \in LookupInts : IntensityInfo(n)
    \/ \E arg \in OptionalInts : Examples(arg)
    \/ \E arg \in OptionalInts : ServerExamples(arg)

SpecTools == Init /\ [][NextTools]_vars

----------------------------------------------------------------------------
(* Properties of the coherence report *)

\* the last call was validate_endora_coherence(call.result)
Validated == call # None /\ call.fn = "validate_endora_coherence"

\* hard check 1 fails: the record of dimensions is there, and the set of its
\* names is not the set of the five dimensions
DimensionCheckFails(r) ==
    /\ "dimensions_applied" \in DOMAIN r.transformation_details
    /\ {r.transformation_details.dimensions_applied[k] :
            k \in DOMAIN r.transformation_details.dimensions_applied}
           # {"material", "spatial", "temporal", "chromatic", "emotional"}

\* hard check 4 fails: intensity_applied is outside 0 .. 10
IntensityCheckFails(r) == r.intensity_applied < 0 \/ r.intensity_applied > 10

\* check 2 fails: the result names a subject and the enhanced prompt shows
\* neither it nor one of its words
SubjectLost(r) ==
    /\ OriginalSubject(r) # ""
    /\ ~Recognizable(OriginalSubject(r), r.enhanced_prompt)

SubjectWarning == "Original subject may not be easily recognizable (high intensity?)"
SensibilityPassed == "Unified sensibility detected (multiple dimensions transformed)"

(* C13: validate_endora_coherence returns is_coherent = false if and only   *)
(* if hard check 1 (the dimension set) or hard check 4 (intensity_applied   *)
(* in 0..10) fails; checks_failed holds one entry per failed hard check and *)
(* nothing else; an unrecognizable subject only appends to warnings; and    *)
(* neither the warning nor the outcome of check 3 changes is_coherent or    *)
(* adds to checks_failed.                                                   *)
C13_HardChecksDecide ==
    Validated =>
        LET r == call.result
        IN  /\ response.is_coherent = ~(DimensionCheckFails(r) \/ IntensityCheckFails(r))
            /\ Len(response.checks_failed) =
                   (IF DimensionCheckFails(r) THEN 1 ELSE 0)
                       + (IF IntensityCheckFails(r) THEN 1 ELSE 0)
            /\ \A k \in DOMAIN response.checks_failed :
                   \/ DimensionCheckFails(r)
                          /\ StartsWith(response.checks_failed[k], "Missing dimensions: ")
                   \/ IntensityCheckFails(r)
                          /\ StartsWith(response.checks_failed[k], "Intensity out of range: ")
            /\ response.warnings = IF SubjectLost(r) THEN <<SubjectWarning>> ELSE <<>>

\* a report with the warning and without the sensibility pass that is coherent,
\* and a report without either whose intensity check failed
C13_WarnedYetCoherent ==
    /\ Validated
    /\ response.warnings = <<SubjectWarning>>
    /\ SensibilityPassed \notin Range(response.checks_passed)
    /\ response.checks_failed = <<>>
    /\ response.is_coherent

\* the entries of a report that checks 1, 2 and 4 account for
AccountedFor(entry) ==
    \/ StartsWith(entry, "Missing dimensions: ")
    \/ StartsWith(entry, "Intensity out of range: ")
    \/ entry = SubjectWarning

\* the number of non-empty slots among the six rewritten ones
NonEmptySlots(r) ==
    IF "transformed_components" \in DOMAIN r.transformation_details
    THEN LET tc == r.transformation_details.transformed_components
         IN  Cardinality({name \in {"subject", "action", "setting", "mood"} : tc[name] # ""}
                             \cup {name \in {"objects", "colors"} : tc[name] # <<>>})
    ELSE 0

(* C14: for a result in which fewer than 3 of the 6 rewritten slots         *)
(* (subject, action, setting, objects, colors, mood) are non-empty, the     *)
(* report records in checks_failed or in warnings that the                  *)
(* unified-sensibility heuristic was not met, while is_coherent stays true  *)
(* provided checks 1 and 4 pass; with 3 or more non-empty slots the         *)
(* heuristic is recorded in checks_passed.                                  *)
C14_UnmetHeuristicRecorded ==
    Validated =>
        LET r == call.result
        IN  IF NonEmptySlots(r) >= 3
            THEN SensibilityPassed \in Range(response.checks_passed)
            ELSE /\ SensibilityPassed \notin Range(response.checks_passed)
                 /\ \E entry \in Range(response.checks_failed) \cup Range(response.warnings) :
                        ~AccountedFor(entry)
                 /\ (~DimensionCheckFails(r) /\ ~IntensityCheckFails(r))
                        => response.is_coherent

----------------------------------------------------------------------------
(* Properties of the tools of the server *)

\* the last call was enhance_prompt_with_endora_impl(call.prompt, call.intensity,
\* call.include_details)
ToolCalled == call # None /\ call.fn = "enhance_prompt_with_endora_impl"

\* the nearest intensity of 0 .. 10
Nearest(n) == IF n < 0 THEN 0 ELSE IF n > 10 THEN 10 ELSE n

(* C15: enhance_prompt_with_endora_impl returns a string for every input    *)
(* and no exception escapes it; an error raised while constructing or       *)
(* applying the operator (a non-numeric intensity) comes back as the string *)
(* "Error: <message>", <message> being the text of the exception; an        *)
(* out-of-range integer intensity is not an error at this boundary: it is   *)
(* served as the nearest intensity of 0..10 is.                             *)
C15_ErrorsBecomeStrings ==
    ToolCalled =>
        /\ raised = None
        /\ response.type = "str"
        /\ IF call.intensity.type # "int"
           THEN response.value = "Error: " \o TypeErrorOf("embedded", call.intensity).message
           ELSE /\ ~StartsWith(response.value, "Error: ")
                /\ response =
                       enhance_prompt_with_endora_impl(
                           call.prompt, PyInt(Nearest(call.intensity.value)),
                           call.include_details)

\* the tool was called with the str "high" and returned the error text
C15_StrIntensityReported ==
    /\ ToolCalled
    /\ call.intensity = StrArg("high")
    /\ raised = None
    /\ response = PyStr("Error: '<' not supported between instances of 'str' and 'int'")

\* the positions of a serialized object where a member of the outermost level
\* starts: a line indented by one level
MemberStarts(json) == {i \in 1 .. Len(json) : At(json, i, "\n  \"")}

\* the end of the key that starts after position i: the next quotation mark
KeyEnd(json, i) ==
    CHOOSE j \in (i + 4) .. Len(json) :
        /\ SubSeq(json, j, j) = "\""
        /\ \A k \in (i + 4) .. (j - 1) : SubSeq(json, k, k) # "\""

\* the field names of the outermost level of a serialized object
TopLevelFields(json) ==
    {SubSeq(json, i + 4, KeyEnd(json, i) - 1) : i \in MemberStarts(json)}

(* C16: with include_details = false the tool returns exactly the           *)
(* enhanced_prompt string; with include_details = true it returns a         *)
(* JSON-serialized object whose fields are enhanced_prompt, original_prompt,*)
(* character, intensity, success and transformation_details.                *)
C16_DetailedFields ==
    (ToolCalled /\ call.intensity.type = "int") =>
        IF call.include_details
        THEN /\ StartsWith(response.value, "{") /\ EndsWith(response.value, "}")
             /\ TopLevelFields(response.value) =
                    {"enhanced_prompt", "original_prompt", "character", "intensity",
                     "success", "transformation_details"}
        ELSE response.value =
                 ServerApply(ServerEndoraOperator(call.intensity.value),
                             call.prompt).enhanced_prompt

(* C17: for every prompt and every integer intensity in 0..10, the          *)
(* enhanced_prompt returned by the server tool                              *)
(* enhance_prompt_with_endora_impl equals the enhanced_prompt produced by   *)
(* the core pipeline (enhance_prompt_with_endora, the framework's           *)
(* EndoraOperator.apply) for the same prompt and intensity.                 *)
C17_ToolReturnsCoreResult ==
    (ToolCalled /\ call.intensity.type = "int" /\ call.intensity.value \in Intensities) =>
        LET core == EntryResponse(call.prompt,
                                  apply(EndoraOperator(call.intensity.value), call.prompt),
                                  FALSE)
        IN  IF call.include_details
            THEN Contains(response.value,
                          "\"enhanced_prompt\": " \o JsonString(core.enhanced_prompt))
            ELSE response.value = core.enhanced_prompt

\* the last call was one of the two intensity description lookups
DescriptionCalled ==
    /\ call # None
    /\ call.fn \in {"get_endora_intensity_description", "get_endora_intensity_info"}

(* C18: for every integer intensity in 0..10 the description lookup returns *)
(* a fixed, non-empty description string, a table entry of its own for each *)
(* value; for every integer below 0 or above 10 it returns the literal      *)
(* "Invalid intensity" and does not raise; the module-level lookup and the  *)
(* server tool return the same string for every integer.                    *)
C18_DescriptionLookup ==
    DescriptionCalled =>
        LET n == call.intensity.value
        IN  /\ raised = None
            /\ response.type = "str"
            /\ IF n \in 0 .. 10
               THEN /\ response.value \notin {"", "Invalid intensity", "Unknown intensity"}
                    /\ \A m \in (0 .. 10) \ {n} :
                           /\ get_endora_intensity_description(m) # response.value
                           /\ get_endora_intensity_info(m) # response.value
               ELSE response.value = "Invalid intensity"
            /\ response.value = get_endora_intensity_description(n)
            /\ response.value = get_endora_intensity_info(n)

\* the server tool was asked for 10, the last entry of the table
C18_ServerDescribesTen ==
    /\ DescriptionCalled
    /\ call.fn = "get_endora_intensity_info"
    /\ call.intensity = PyInt(10)
    /\ StartsWith(response.value, "Complete saturation")

ExampleFields == {"original", "enhanced", "description"}

\* a mapping from exactly the intensities of keys to triples of non-empty texts
IsExampleMapping(mapping, keys) ==
    /\ DOMAIN mapping = keys
    /\ \A k \in keys :
           /\ DOMAIN mapping[k] = ExampleFields
           /\ \A f \in ExampleFields : mapping[k][f] # ""

(* C19: the examples lookup, called without an intensity, returns a table   *)
(* holding examples for exactly the intensities 2, 5 and 8; called with a   *)
(* listed intensity it returns a one-entry mapping from that intensity to a *)
(* triple with the keys original, enhanced and description; called with any *)
(* other intensity it returns an empty mapping and does not raise.  The     *)
(* server's lookup returns the same shapes as JSON text.                    *)
C19_ExamplesLookup ==
    /\ (call # None /\ call.fn = "get_endora_examples") =>
           /\ raised = None
           /\ response.type = "dict"
           /\ IF call.intensity = None
              THEN IsExampleMapping(response.value, {2, 5, 8})
              ELSE IF call.intensity.value \in {2, 5, 8}
              THEN /\ IsExampleMapping(response.value, {call.intensity.value})
                   /\ response.value[call.intensity.value]
                          = get_endora_examples(None).value[call.intensity.value]
              ELSE DOMAIN response.value = {}
    /\ (call # None /\ call.fn = "server.get_endora_examples") =>
           /\ raised = None
           /\ response.type = "str"
           /\ IF call.intensity = None
              THEN TopLevelFields(response.value) = {"2", "5", "8"}
              ELSE IF call.intensity.value \in {2, 5, 8}
              THEN TopLevelFields(response.value) = {ToString(call.intensity.value)}
              ELSE response.value = "{}"

\* the module's lookup was asked for an unlisted intensity and gave the empty mapping
C19_UnlistedIsEmpty ==
    /\ call # None
    /\ call.fn = "get_endora_examples"
    /\ call.intensity = PyInt(3)
    /\ raised = None
    /\ DOMAIN response.value = {}

----------------------------------------------------------------------------
(* Totality of the pipeline *)

\* no word of the vocabulary occurs in the text
NoneOf(words, t) == \A k \in DOMAIN words : ~Contains(t, words[k])

\* for each prompt, the vocabularies of which it holds no word
Misses ==
    Tabulated([p \in Prompts |->
                   [ verbs    |-> NoneOf(Verbs, Lower(p)),
                     settings |-> NoneOf(Settings, Lower(p)),
                     objects  |-> NoneOf(ObjectKeywords, Lower(p)),
                     colors   |-> NoneOf(ColorWords, Lower(p)),
                     moods    |-> NoneOf(Moods, Lower(p)) ]])

(* C20: for every prompt string and every integer intensity, decomposition  *)
(* and each of the six rewrite calls complete without raising: a slot with  *)
(* no pattern or keyword match degrades to "" (or the empty list, or        *)
(* "neutral" for the mood), the rewrite of an empty subject, action,        *)
(* setting or object list is empty again, and apply ends with a result      *)
(* whose intensity is in 0..10.                                             *)
C20_SlotsDegrade ==
    \A id \in OperatorIds :
        FrameworkResult(id) =>
            LET p    == results[id].prompt
                r    == results[id].returned
                oc   == r.transformation_details.original_components
                tc   == r.transformation_details.transformed_components
                miss == Misses[p]
            IN  /\ r.intensity_applied \in 0 .. 10
                /\ p = "" => (oc.subject = "" /\ tc.subject = "")
                /\ miss.verbs => (oc.action = "" /\ tc.action = "")
                /\ miss.settings => (oc.setting = "" /\ tc.setting = "")
                /\ miss.objects => (oc.objects = <<>> /\ tc.objects = <<>>)
                /\ miss.colors => oc.colors = <<>>
                /\ miss.moods => (oc.mood = "neutral" /\ StartsWith(tc.mood, "neutral"))
                /\ r.enhanced_prompt # ""

\* an operator asked for 11 has rewritten the empty prompt: every slot is
\* empty but the mood
C20_EmptyPromptAtEleven ==
    \E id \in OperatorIds :
        /\ FrameworkResult(id)
        /\ requested[id] = IntArg(11)
        /\ results[id].prompt = ""
        /\ LET oc == results[id].returned.transformation_details.original_components
           IN  oc = [ subject |-> "", action |-> "", setting |-> "", objects |-> <<>>,
                      colors |-> <<>>, mood |-> "neutral" ]
        /\ StartsWith(results[id].returned.enhanced_prompt, "with deep sapphire")

----------------------------------------------------------------------------
(* framework/core/olog_loader.py: OlogLoader *)

\* what a path holds: no file, a file yaml.safe_load reads as None, or a mapping
MissingFile == [kind |-> "missing"]
EmptyDocument == [kind |-> "empty"]

\* a document that is a mapping; transformation_dimensions lists <<name, data>>
\* in document order, default is intensity_parameter["default"] or None
Document(transformation_dimensions, default) ==
    [ kind                      |-> "mapping",
      transformation_dimensions |-> transformation_dimensions,
      default                   |-> default ]

\* the intensification_curve entry of a dimension: none, a mapping, or a str
CurveAbsent == [type |-> "absent"]
CurveDict == [type |-> "dict"]
CurveStr(t) == [type |-> "str", value |-> t]

\* an exception of the loader
Exception(exception, message) ==
    [type |-> "exception", exception |-> exception, message |-> message]

\* the four paths, in the order __init__ loads them
OlogPaths ==
    << "characters/endora/olog/../../../framework/core/categorical_structure.yaml",
       "characters/endora/olog/categorical.yaml",
       "characters/endora/olog/intentionality.yaml",
       "characters/endora/olog/../../../framework/core/intentionality.yaml" >>

\* OlogLoader._load_yaml(path): the exception it raises, None if it returns
LoadYamlRaises(path, file) ==
    IF file.kind = "missing"
    THEN Exception("FileNotFoundError", "Olog file not found: " \o path)
    ELSE IF file.kind = "empty"
    THEN Exception("ValueError", "Empty YAML file: " \o path)
    ELSE None

\* str.split("\n"): the pieces between the line feeds, at least one
RECURSIVE SplitLines(_)
SplitLines(t) ==
    LET i == Find(t, "\n")
    IN  IF i = 0 THEN <<t>>
        ELSE <<SubSeq(t, 1, i - 1)>> \o SplitLines(SubSeq(t, i + 1, Len(t)))

\* "for k, v in <line>": unpacking a str of other than two characters raises
UnpackRaises(line) ==
    IF Len(line) < 2
    THEN Exception("ValueError",
                   "not enough values to unpack (expected 2, got "
                       \o ToString(Len(line)) \o ")")
    ELSE IF Len(line) > 2
    THEN Exception("ValueError", "too many values to unpack (expected 2)")
    ELSE None

\* the first exception of a sequence of outcomes, None if there is none
RECURSIVE FirstRaised(_)
FirstRaised(outcomes) ==
    IF outcomes = <<>> THEN None
    ELSE IF Head(outcomes) # None THEN Head(outcomes)
    ELSE FirstRaised(Tail(outcomes))

\* TransformationDimension.from_dict(name, data): the exception of the dict
\* comprehension over data.get("intensification_curve", "").split("\n")
DimensionRaises(curve) ==
    IF curve.type = "dict"
    THEN Exception("AttributeError", "'dict' object has no attribute 'split'")
    ELSE LET lines == SplitLines(IF curve.type = "absent" THEN "" ELSE curve.value)
         IN  FirstRaised([k \in 1 .. Len(lines) |-> UnpackRaises(lines[k])])

\* the TransformationDimension of a dimension that loads: k is one character
\* of a two-character line, "intensity" is never in it, the curve stays empty
TransformationDimension(name) ==
    [name |-> name, intensification_curve |-> <<>>]

\* CharacterOperator.from_dict(data): the exception of the first dimension
\* that raises, in document order
OperatorRaises(document) ==
    FirstRaised([k \in 1 .. Len(document.transformation_dimensions) |->
                     DimensionRaises(document.transformation_dimensions[k][2])])

CharacterOperator(document) ==
    [ transformation_dimensions |->
          [k \in 1 .. Len(document.transformation_dimensions) |->
               TransformationDimension(document.transformation_dimensions[k][1])],
      intensity_parameter       |-> document.default ]

\* OlogLoader.__init__: the exception that ends it, None if the object is made
OlogLoaderRaises(files) ==
    LET loads == FirstRaised([k \in 1 .. Len(OlogPaths) |->
                                  LoadYamlRaises(OlogPaths[k], files[k])])
    IN  IF loads # None THEN loads ELSE OperatorRaises(files[3])

\* the fields of the object validate_coherence reads
OlogLoader(files) ==
    [ character_categorical |-> files[2],
      character_operator    |-> CharacterOperator(files[3]) ]

\* the names of the dimensions of the categorical document and of the operator
CategoricalNames(self) ==
    {self.character_categorical.transformation_dimensions[k][1] :
         k \in DOMAIN self.character_categorical.transformation_dimensions}

IntentionalityNames(self) ==
    {self.character_operator.transformation_dimensions[k].name :
         k \in DOMAIN self.character_operator.transformation_dimensions}

\* intensity_data.get("default", 5)
DefaultIntensity(self) ==
    IF self.character_operator.intensity_parameter = None THEN 5
    ELSE self.character_operator.intensity_parameter.value

\* f"{intensity_data.get('default')}"
DefaultRepr(self) ==
    IF self.character_operator.intensity_parameter = None THEN "None"
    ELSE ToString(self.character_operator.intensity_parameter.value)

\* OlogLoader.validate_coherence(); missing and extra are the iteration orders
\* of the two difference sets inside the messages
validate_coherence(self, missing, extra) ==
    LET dims == self.character_operator.transformation_dimensions
    IN  (IF CategoricalNames(self) \ IntentionalityNames(self) # {}
         THEN <<"Transformation dimensions missing in intentionality: "
                    \o SetRepr(missing)>>
         ELSE <<>>)
        \o (IF IntentionalityNames(self) \ CategoricalNames(self) # {}
            THEN <<"Extra transformation dimensions in intentionality: "
                       \o SetRepr(extra)>>
            ELSE <<>>)
        \o (IF 0 <= DefaultIntensity(self) /\ DefaultIntensity(self) <= 10 THEN <<>>
            ELSE <<"Default intensity out of range: " \o DefaultRepr(self)>>)
        \o [k \in 1 .. Len(dims) |->
                "Missing intensification curve for dimension: " \o dims[k].name]

----------------------------------------------------------------------------
(* the documents at the four paths, the construction of the loader and its *)
(* validate_coherence                                                      *)

\* a document without dimensions
PlainDocument == Document(<<>>, None)

FrameworkFiles == {MissingFile, EmptyDocument, PlainDocument}

\* the dimensions of the categorical document: their names matter alone
Named(name) == <<name, CurveAbsent>>

CategoricalFiles ==
    {MissingFile, EmptyDocument}
        \cup {Document(dims, None) :
                  dims \in {<<>>, <<Named("material")>>,
                            <<Named("material"), Named("spatial")>>}}

\* dimension entries of the intentionality document: without a curve, with a
\* curve that is a mapping of levels, and with a curve that is a block of text
CurveTexts == {"ab", "ab\ncd", "intensity_level_3: deliberate"}
CurveEntries == {CurveAbsent, CurveDict} \cup {CurveStr(t) : t \in CurveTexts}

IntentionalityDimensions ==
    {<<>>}
        \cup {<<<<"material", curve>>>> : curve \in CurveEntries}
        \cup {<<<<"material", CurveStr("ab")>>, <<"temporal", curve>>>> :
                  curve \in {CurveDict, CurveStr("ab\ncd")}}

\* an intensity_parameter default outside 0 .. 10
OutOfRangeDefault == 11

IntentionalityFiles ==
    {MissingFile, EmptyDocument}
        \cup {Document(dims, default) :
                  dims \in IntentionalityDimensions,
                  default \in {None, PyInt(5), PyInt(OutOfRangeDefault)}}

OlogFiles ==
    {<<fc, cc, ci, fi>> :
         fc \in FrameworkFiles, cc \in CategoricalFiles,
         ci \in IntentionalityFiles, fi \in FrameworkFiles}

\* OlogLoader(framework_olog_path, character_olog_path,
\* character_intentionality_path, framework_intentionality_path)
LoadOlogs(files) ==
    /\ call' = [fn |-> "OlogLoader", files |-> files]
    /\ raised' = OlogLoaderRaises(files)
    /\ loader' = IF OlogLoaderRaises(files) = None THEN OlogLoader(files) ELSE None
    /\ issues' = None
    /\ UNCHANGED <<operators, requested, results, response, constructed, parsed,
                   slot, outs>>

\* loader.validate_coherence()
ValidateCoherence(missing, extra) ==
    /\ loader # None
    /\ issues' = validate_coherence(loader, missing, extra)
    /\ raised' = None
    /\ UNCHANGED <<operators, requested, results, call, response, constructed, parsed,
                   slot, outs, loader>>

NextOlog ==
    \/ \E files \in OlogFiles : LoadOlogs(files)
    \/ /\ loader # None
       /\ \E missing \in Orderings(CategoricalNames(loader) \ IntentionalityNames(loader)),
             extra \in Orderings(IntentionalityNames(loader) \ CategoricalNames(loader)) :
              ValidateCoherence(missing, extra)

SpecOlog == Init /\ [][NextOlog]_vars

----------------------------------------------------------------------------
(* Properties of the configuration loader *)

\* the last construction of a loader, from the documents call.files
OlogsLoaded == call # None /\ call.fn = "OlogLoader"

\* the names of the transformation dimensions of a document
DocumentNames(document) ==
    {document.transformation_dimensions[k][1] :
         k \in DOMAIN document.transformation_dimensions}

\* an issue of the list starts with the text
IssueStarts(text) == \E k \in DOMAIN issues : StartsWith(issues[k], text)

(* C21: a missing document makes the construction of the loader fail with a *)
(* not-found error, an empty document with a ValueError; when all four      *)
(* documents exist and are non-empty, a transformation dimension that is in *)
(* the character categorical document and not in the intentionality         *)
(* document, or in the intentionality document and not in the categorical   *)
(* one, does not fail loading: the loader is constructed and                *)
(* validate_coherence returns the mismatch as an issue string.              *)
C21_LoadingOutcomes ==
    OlogsLoaded =>
        LET files   == call.files
            missing == {k \in DOMAIN files : files[k].kind = "missing"}
            empty   == {k \in DOMAIN files : files[k].kind = "empty"}
        IN  IF missing # {} \/ empty # {}
            THEN /\ loader = None
                 /\ raised # None
                 /\ raised.exception \in {"FileNotFoundError", "ValueError"}
                 /\ empty = {} => raised.exception = "FileNotFoundError"
                 /\ missing = {} => raised.exception = "ValueError"
            ELSE /\ raised = None
                 /\ loader # None
                 /\ issues # None =>
                        /\ DocumentNames(files[2]) \ DocumentNames(files[3]) # {}
                               => IssueStarts(
                                      "Transformation dimensions missing in intentionality: ")
                        /\ DocumentNames(files[3]) \ DocumentNames(files[2]) # {}
                               => IssueStarts(
                                      "Extra transformation dimensions in intentionality: ")

----------------------------------------------------------------------------
(* Properties of the decomposition *)

\* the slot strings of a ParsedPrompt, in the order parse removes them
SlotStrings(pp) == <<pp.subject, pp.action, pp.setting>> \o pp.objects \o pp.colors \o <<pp.mood>>

\* how often a word is among the whitespace-separated words of a text
WordCount(text, word) ==
    Cardinality({k \in DOMAIN Split(text) : Split(text)[k] = word})

\* the words of a slot string that the prompt holds once
ClaimedOnce(pp, k) ==
    {word \in Range(Split(SlotStrings(pp)[k])) : WordCount(pp.base_prompt, word) = 1}

(* C22: other_details is the raw prompt from which, for subject, action,    *)
(* setting, each object, each color and mood in that order, the first       *)
(* occurrence of the slot string has been removed if the string is          *)
(* non-empty and occurs in the remaining text, trimmed of surrounding       *)
(* whitespace; consequently no text claimed by a slot remains in            *)
(* other_details: a word the prompt holds once and a slot claims is not     *)
(* among the words of other_details, so it cannot appear in the recomposed  *)
(* output both in a slot segment and in the other_details segment.          *)
C22_OtherDetailsUnclaimed ==
    parsed # None =>
        /\ parsed.other_details = Strip(RemoveEach(parsed.base_prompt, SlotStrings(parsed)))
        /\ \A k \in DOMAIN SlotStrings(parsed) :
               \A word \in ClaimedOnce(parsed, k) :
                   WordCount(parsed.other_details, word) = 0

\* the noun occurs at position i of the text, and "<adjective noun> " is not
\* directly before it
FreeOccurrence(t, noun, i) ==
    /\ At(t, i, noun)
    /\ \A k \in DOMAIN AdjectiveNouns :
           LET adj == AdjectiveNouns[k] \o " "
           IN  ~(i > Len(adj) /\ At(t, i - Len(adj), adj))

\* the noun is one of the objects of the last parse
IsParsedObject(noun) == noun \in Range(parsed.objects)

(* C23: an object noun of the vocabulary is among objects if and only if it *)
(* occurs in the lower-cased prompt with at least one occurrence that is    *)
(* not directly preceded by one of coffee, soup, wine, water, tea, beer,    *)
(* milk; each noun appears at most once and in vocabulary order ("a coffee  *)
(* cup" yields no "cup"; a prompt with "tea cup" and a standalone "cup"     *)
(* yields "cup").                                                           *)
C23_ObjectsPerOccurrence ==
    parsed # None =>
        LET t == Lower(parsed.base_prompt)
        IN  /\ \A k \in DOMAIN ObjectKeywords :
                   IsParsedObject(ObjectKeywords[k])
                       <=> \E i \in 1 .. Len(t) : FreeOccurrence(t, ObjectKeywords[k], i)
            /\ parsed.objects = SelectSeq(ObjectKeywords, IsParsedObject)

----------------------------------------------------------------------------
(* Properties of the rewrites of objects, of empty slots and of the suffix *)

\* the slot under rewrite is of the dimension, and empty or not
SlotIs(dim) == slot # None /\ slot.dim = dim
SlotEmpty == slot.value.text = "" /\ slot.value.list = <<>>

(* C24: for every intensity in 0..10 and every non-empty object list, each  *)
(* object is rewritten element-wise under the band of the subject: an       *)
(* object is returned unchanged exactly at the intensities where a subject  *)
(* is returned unchanged, and the output list has the length and the order  *)
(* of the input; an empty object list is returned unchanged at every        *)
(* intensity.                                                               *)
C24_ObjectsFollowSubject ==
    SlotIs("objects") =>
        \A i \in Intensities :
            Rewritten(i) =>
                LET objects == slot.value.list
                    out     == outs[i].value.list
                IN  /\ Len(out) = Len(objects)
                    /\ \A k \in DOMAIN objects :
                           /\ Contains(out[k], objects[k])
                           /\ out[k] = objects[k]
                                  <=> _transform_material_dimension(
                                          EndoraOperator(i), objects[k]) = objects[k]

\* the phrases synthesized for an empty color list
PalettePhrases ==
    {"rich jewel-tone accents",
     "deep sapphire, emerald, and amethyst tones with gold accents"}

(* C25, as the code has it: when the input color list is empty, the         *)
(* chromatic rewrite returns the empty list for every intensity below 4 and *)
(* a one-element list holding a default palette phrase for every intensity  *)
(* 4..10; material subject, material objects, spatial and temporal return   *)
(* their empty input unchanged at every intensity; the emotional rewrite    *)
(* turns an empty mood into a text that starts with "neutral" at every      *)
(* intensity.                                                               *)
C25_EmptySlotRewrites ==
    (slot # None /\ SlotEmpty) =>
        \A i \in Intensities :
            Rewritten(i) =>
                CASE slot.dim = "chromatic" ->
                         IF i < 4 THEN outs[i].value.list = <<>>
                         ELSE /\ Len(outs[i].value.list) = 1
                              /\ outs[i].value.list[1] \in PalettePhrases
                  [] slot.dim = "emotional" ->
                         StartsWith(outs[i].value.text, "neutral")
                  [] OTHER -> outs[i].value = slot.value

\* an empty color list rewritten at 3 and at 4: nothing, then the palette
C25_PaletteFromFour ==
    /\ SlotIs("chromatic") /\ SlotEmpty
    /\ Rewritten(3) /\ outs[3].value.list = <<>>
    /\ Rewritten(4) /\ outs[4].value.list = <<"rich jewel-tone accents">>

(* C25, as stated: the chromatic rewrite of an empty color list is the only *)
(* rewrite that produces a non-empty output from an empty slot.             *)
C25_OnlyChromaticSynthesizes ==
    (slot # None /\ SlotEmpty /\ slot.dim # "chromatic") =>
        \A i \in Intensities : Rewritten(i) => outs[i].value = slot.value

(* C26: at every intensity >= 6, whenever the list returned by the          *)
(* chromatic rewrite is non-empty, the palette synthesized from an empty    *)
(* input color list included, its last element ends with the "composed with *)
(* intention" suffix; at every intensity below 6 no element carries it.     *)
C26_SuffixOnEveryOutput ==
    SlotIs("chromatic") =>
        \A i \in Intensities :
            Rewritten(i) =>
                LET out == outs[i].value.list
                IN  IF i >= 6
                    THEN out # <<>> => EndsWith(out[Len(out)], CompositionSuffix)
                    ELSE \A k \in DOMAIN out : ~EndsWith(out[k], CompositionSuffix)

----------------------------------------------------------------------------
(* Properties of the coherence report of pipeline results *)

\* the result carries a dimensions_applied record of exactly the five names
ExactFiveDimensions(r) ==
    /\ "dimensions_applied" \in DOMAIN r.transformation_details
    /\ Range(r.transformation_details.dimensions_applied)
           = {"material", "spatial", "temporal", "chromatic", "emotional"}

(* C27: validate_endora_coherence reports is_coherent = true only if the    *)
(* result carries a dimensions_applied record whose set of names is exactly *)
(* {material, spatial, temporal, chromatic, emotional}; a record with a     *)
(* missing name, with an extra name, or no record at all makes check 1      *)
(* fail: an entry in checks_failed and is_coherent = false.                 *)
C27_ExactSetOrFail ==
    Validated =>
        /\ response.is_coherent => ExactFiveDimensions(call.result)
        /\ ~ExactFiveDimensions(call.result) =>
               /\ ~response.is_coherent
               /\ \E k \in DOMAIN response.checks_failed :
                      StartsWith(response.checks_failed[k], "Missing dimensions: ")

(* C28: for every prompt, the empty one included, and every intensity, the  *)
(* enhanced_prompt the framework's EndoraOperator.apply returns is          *)
(* non-empty and holds a "mood: " segment, because the rewritten mood is    *)
(* never empty: the decomposer defaults the mood to "neutral" and the       *)
(* emotional rewrite puts "neutral" for an empty mood.                      *)
C28_MoodSegmentAlways ==
    \A id \in OperatorIds :
        FrameworkResult(id) =>
            LET r  == results[id].returned
                oc == r.transformation_details.original_components
                tc == r.transformation_details.transformed_components
            IN  /\ oc.mood # ""
                /\ tc.mood # ""
                /\ StartsWith(_transform_emotional_dimension(operators[id], ""), "neutral")
                /\ r.enhanced_prompt # ""
                /\ \/ StartsWith(r.enhanced_prompt, "mood: " \o tc.mood)
                   \/ Contains(r.enhanced_prompt, ". mood: " \o tc.mood)

\* the empty prompt at intensity 0: the mood segment is all there is
C28_OnlyTheMood ==
    \E id \in OperatorIds :
        /\ FrameworkResult(id)
        /\ operators[id].intensity = 0
        /\ results[id].prompt = ""
        /\ results[id].returned.enhanced_prompt = "mood: neutral"

\* the last call validated a result of the framework's EndoraOperator.apply
PipelineValidated == Validated /\ call.result \in PipelineResults

(* C29: every result of the framework's EndoraOperator.apply, for any       *)
(* prompt and any integer intensity (intensity 10, where the leading        *)
(* article of the subject is stripped, included), passes                    *)
(* validate_endora_coherence with is_coherent = true, an empty              *)
(* checks_failed and an empty warnings list: dimensions_applied holds       *)
(* exactly the five names, intensity_applied is in 0..10, and a non-empty   *)
(* original subject, or one of its words, still occurs case-insensitively   *)
(* in enhanced_prompt.                                                      *)
C29_PipelineResultsPass ==
    PipelineValidated =>
        /\ response.is_coherent
        /\ response.checks_failed = <<>>
        /\ response.warnings = <<>>
        /\ "All five transformation dimensions applied" \in Range(response.checks_passed)
        /\ call.result.intensity_applied \in 0 .. 10
        /\ call.result.transformation_details.original_components.subject # ""
               => "Original subject recognizable" \in Range(response.checks_passed)

\* the result of "a coffee cup" at 10, its article stripped, has passed
C29_StrippedArticlePasses ==
    /\ PipelineValidated
    /\ call.result.intensity_applied = 10
    /\ call.result.transformation_details.original_components.subject = "a coffee cup"
    /\ ~Contains(call.result.enhanced_prompt, "a coffee cup")
    /\ response.is_coherent
    /\ response.warnings = <<>>

====
